---- MODULE Spec2Model ----
(***************************************************************************)
(* A model of the streamvbyte64 group codec: the coding descriptors        *)
(* (1234, 0124, 1248), the scalar group kernel, and the stream driver      *)
(* (encode_to_sink, decode_to_sink, data_len, skip_deltas).                *)
(*                                                                         *)
(* Representation.  TLC's integers are 32-bit signed, so a u32 or u64      *)
(* element is modelled by its little-endian bytes: a sequence of           *)
(* ELEM_WIDTH bytes, index 1 the least significant.  Wrapping arithmetic   *)
(* is byte-wise with carry/borrow, dropped after the top byte (mod 2^(8W)).*)
(* A packed tag word (u64) is the sequence of its eight bytes, lowest      *)
(* first, as read_unaligned produces on a little-endian target.            *)
(***************************************************************************)
EXTENDS Integers, Sequences, FiniteSets, TLC

(***************************************************************************)
(* Bounds of the model.                                                    *)
(***************************************************************************)
\* Largest number of groups in an input slice (values.len() <= 4*MaxGroups).
MaxGroups == 9
\* Longest tag slice handed to the pure-function harness.
MaxTagLen == 17

(***************************************************************************)
(* Bit and byte primitives.                                                *)
(***************************************************************************)
RECURSIVE Pow2(_)
Pow2(k) == IF k = 0 THEN 1 ELSE 2 * Pow2(k - 1)

RECURSIVE BitAnd(_, _)
BitAnd(a, b) ==
  IF a = 0 \/ b = 0 THEN 0
  ELSE (a % 2) * (b % 2) + 2 * BitAnd(a \div 2, b \div 2)

RECURSIVE BitOr(_, _)
BitOr(a, b) ==
  IF a = 0 THEN b
  ELSE IF b = 0 THEN a
  ELSE (IF a % 2 = 1 \/ b % 2 = 1 THEN 1 ELSE 0) + 2 * BitOr(a \div 2, b \div 2)

Shr(a, k) == a \div Pow2(k)

\* u8 << k
Shl8(a, k) == (a * Pow2(k)) % 256

\* Number of bits needed to write n (0 for n = 0): BITS - n.leading_zeros().
RECURSIVE BitLen(_)
BitLen(n) == IF n = 0 THEN 0 ELSE 1 + BitLen(n \div 2)

\* a.saturating_sub(b) on unsigned integers.
saturating_sub(a, b) == IF a >= b THEN a - b ELSE 0

Min(a, b) == IF a <= b THEN a ELSE b

RECURSIVE SumSeq(_)
SumSeq(s) == IF s = <<>> THEN 0 ELSE Head(s) + SumSeq(Tail(s))

Zeros(n) == [k \in 1..n |-> 0]

(***************************************************************************)
(* Elements as little-endian byte sequences.                               *)
(***************************************************************************)
ElemZero(W) == [k \in 1..W |-> 0]

\* Elem::leading_zeros(): leading zero bits, counted from the top byte down.
RECURSIVE leading_zeros(_)
leading_zeros(v) ==
  IF v = <<>> THEN 0
  ELSE IF v[Len(v)] = 0 THEN 8 + leading_zeros(SubSeq(v, 1, Len(v) - 1))
  ELSE 8 - BitLen(v[Len(v)])

\* a.wrapping_add(b): byte-wise with carry, the carry out of the top byte dropped.
RECURSIVE AddFrom(_, _, _, _)
AddFrom(a, b, k, carry) ==
  IF k > Len(a) THEN <<>>
  ELSE LET s == a[k] + b[k] + carry
       IN <<s % 256>> \o AddFrom(a, b, k + 1, s \div 256)

wrapping_add(a, b) == AddFrom(a, b, 1, 0)

\* a.wrapping_sub(b): byte-wise with borrow, the borrow out of the top byte dropped.
RECURSIVE SubFrom(_, _, _, _)
SubFrom(a, b, k, borrow) ==
  IF k > Len(a) THEN <<>>
  ELSE LET d == a[k] - b[k] - borrow
       IN <<(d + 256) % 256>> \o SubFrom(a, b, k + 1, IF d < 0 THEN 1 ELSE 0)

wrapping_sub(a, b) == SubFrom(a, b, 1, 0)

\* a & b on elements.
ElemAnd(a, b) == [k \in 1..Len(a) |-> BitAnd(a[k], b[k])]

(***************************************************************************)
(* Coding descriptors.                                                     *)
(***************************************************************************)
Coders == {"1234", "0124", "1248"}

\* size_of::<Elem>()
ELEM_WIDTH(c) == IF c = "1248" THEN 8 ELSE 4

\* CodingDescriptor::TAG_LEN; TAG_LEN(c)[t + 1] is the source's TAG_LEN[t].
TAG_LEN(c) ==
  CASE c = "1234" -> <<1, 2, 3, 4>>
    [] c = "0124" -> <<0, 1, 2, 4>>
    [] c = "1248" -> <<1, 2, 4, 8>>

\* tag_mask32 / tag_mask64: Elem::MAX when len is the element width, else
\* (1 << (len * 8)) - 1: the low len bytes all ones, the rest zero.
tag_mask(len, W) ==
  IF len = W THEN [k \in 1..W |-> 255]
  ELSE [k \in 1..W |-> IF k <= len THEN 255 ELSE 0]

\* tag_mask_table32 / tag_mask_table64, as CodingDescriptor::TAG_MAX.
TAG_MAX(c) == [t \in 1..4 |-> tag_mask(TAG_LEN(c)[t], ELEM_WIDTH(c))]

TAG_VALUE_MAP == <<0, 1, 2, 3, 3>>

\* A variant of tag_value_1234 that forgets the saturation bound of 3 - x
\* and clamps at 1 instead: zero and one-byte values no longer share tag 0.
tag_value_1234_mut(v) ==
  LET tag == IF leading_zeros(v) \div 8 >= 3 THEN 1 ELSE 3 - leading_zeros(v) \div 8
  IN <<tag, tag + 1>>

\* CodingDescriptor1234::tag_value
tag_value_1234(v) ==
  LET tag == saturating_sub(3, leading_zeros(v) \div 8)
  IN <<tag, tag + 1>>

\* CodingDescriptor0124::tag_value
tag_value_0124(v) ==
  LET tag == TAG_VALUE_MAP[(4 - leading_zeros(v) \div 8) + 1]
  IN <<tag, TAG_LEN("0124")[tag + 1]>>

\* A variant of tag_value_1248 that counts the bytes from 8 instead of 7.
tag_value_1248_mut(v) ==
  LET t3  == saturating_sub(8, leading_zeros(v) \div 8)
      tag == Min(BitLen(t3), 3)
  IN <<tag, TAG_LEN("1248")[tag + 1]>>

\* CodingDescriptor1248::tag_value
tag_value_1248(v) ==
  LET t3  == saturating_sub(7, leading_zeros(v) \div 8)
      tag == BitLen(t3)
  IN <<tag, TAG_LEN("1248")[tag + 1]>>

\* D::tag_value for descriptor c: <<value-tag, encoded length>>.
tag_value(c, v) ==
  CASE c = "1234" -> tag_value_1234(v)
    [] c = "0124" -> tag_value_0124(v)
    [] c = "1248" -> tag_value_1248(v)

\* tag_utils::tag_to_encoded_len
tag_to_encoded_len(tag, tag_len) ==
    tag_len[BitAnd(tag, 3) + 1]
  + tag_len[BitAnd(Shr(tag, 2), 3) + 1]
  + tag_len[BitAnd(Shr(tag, 4), 3) + 1]
  + tag_len[BitAnd(Shr(tag, 6), 3) + 1]

\* tag_utils::tag_length_table: entry k is the source's table[k - 1], stored as u8.
tag_length_table(tag_len) ==
  [k \in 1..256 |-> tag_to_encoded_len(k - 1, tag_len) % 256]

\* LENGTH_TABLE of group1234/mod.rs, coder0124/mod.rs, coder1248/mod.rs.
LENGTH_TABLE_1234 == tag_length_table(TAG_LEN("1234"))
LENGTH_TABLE_0124 == tag_length_table(TAG_LEN("0124"))
LENGTH_TABLE_1248 == tag_length_table(TAG_LEN("1248"))

LENGTH_TABLE(c) ==
  CASE c = "1234" -> LENGTH_TABLE_1234
    [] c = "0124" -> LENGTH_TABLE_0124
    [] c = "1248" -> LENGTH_TABLE_1248

\* CodingDescriptor::data_len / RawGroup::data_len (one tag byte).
data_len1(c, tag) == LENGTH_TABLE(c)[tag + 1]

(***************************************************************************)
(* Raw memory.  A buffer is a sequence of bytes; an offset is 0-based.     *)
(* A kernel access that falls outside the buffer is undefined behaviour:   *)
(* a write outside is dropped, a read outside yields the byte `junk`,      *)
(* which the calling action chooses nondeterministically, and the access   *)
(* is reported in the `oob` component of the kernel's result.              *)
(***************************************************************************)
\* A variant of WriteElem that stores one byte more than the element has.
WriteElem_mut(mem, off, v) ==
  [k \in 1..Len(mem) |->
     IF off < k /\ k <= off + Len(v) THEN v[k - off]
     ELSE IF k = off + Len(v) + 1 THEN 0 ELSE mem[k]]

\* write_unaligned(ptr.add(off) as *mut Elem, v.to_le())
WriteElem(mem, off, v) ==
  [k \in 1..Len(mem) |->
     IF off < k /\ k <= off + Len(v) THEN v[k - off] ELSE mem[k]]

\* Elem::from_le(read_unaligned(ptr.add(off) as *const Elem))
ReadElem(mem, off, W, junk) ==
  [k \in 1..W |-> IF off + k <= Len(mem) THEN mem[off + k] ELSE junk]

\* RawGroup::load_unaligned: the group of four elements at index idx (0-based).
load_unaligned(vals, idx) == SubSeq(vals, idx + 1, idx + 4)

\* RawGroup::store_unaligned: four elements stored at index idx (0-based);
\* elements falling outside the slice are dropped (and reported by the caller).
store_unaligned(vals, idx, group) ==
  [k \in 1..Len(vals) |->
     IF idx < k /\ k <= idx + 4 THEN group[k - idx] ELSE vals[k]]

\* RawGroup::set1
set1(value) == <<value, value, value, value>>

(***************************************************************************)
(* Scalar group kernel (raw_group::scalar::ScalarRawGroupImpl).            *)
(***************************************************************************)
\* A variant of EncodeValue that places the value-tag of value i at bits
\* [6 - 2i, 8 - 2i) of the tag byte.
EncodeValue_mut(c, s, off, group, i) ==
  LET v  == group[i + 1]
      tv == tag_value(c, v)
  IN [mem     |-> WriteElem(s.mem, off + s.written, v),
      tag     |-> BitOr(s.tag, Shl8(tv[1], (3 - i) * 2)),
      written |-> s.written + tv[2],
      oob     |-> s.oob \/ off + s.written + Len(v) > Len(s.mem)]

\* One iteration i (0-based) of the unrolled loop of ScalarRawGroupImpl::encode.
EncodeValue(c, s, off, group, i) ==
  LET v  == group[i + 1]
      tv == tag_value(c, v)
  IN [mem     |-> WriteElem(s.mem, off + s.written, v),
      tag     |-> BitOr(s.tag, Shl8(tv[1], i * 2)),
      written |-> s.written + tv[2],
      oob     |-> s.oob \/ off + s.written + Len(v) > Len(s.mem)]

\* ScalarRawGroupImpl::encode(output = mem + off, group):
\* the returned tag and written count, and the memory after the call.
ScalarEncode(c, mem, off, group) ==
  LET s0 == [mem |-> mem, tag |-> 0, written |-> 0, oob |-> FALSE]
      s1 == EncodeValue(c, s0, off, group, 0)
      s2 == EncodeValue(c, s1, off, group, 1)
      s3 == EncodeValue(c, s2, off, group, 2)
  IN EncodeValue(c, s3, off, group, 3)

\* A variant of GroupDeltas that takes lane 0 of the base for the first delta.
GroupDeltas_mut(base, group) ==
  << wrapping_sub(group[1], base[1]),
     wrapping_sub(group[2], group[1]),
     wrapping_sub(group[3], group[2]),
     wrapping_sub(group[4], group[3]) >>

\* A variant of GroupDeltas that subtracts each element from its predecessor.
GroupDeltas_reversed(base, group) ==
  << wrapping_sub(base[4], group[1]),
     wrapping_sub(group[1], group[2]),
     wrapping_sub(group[2], group[3]),
     wrapping_sub(group[3], group[4]) >>

\* The deltas ScalarRawGroupImpl::encode_deltas computes.
GroupDeltas(base, group) ==
  << wrapping_sub(group[1], base[4]),
     wrapping_sub(group[2], group[1]),
     wrapping_sub(group[3], group[2]),
     wrapping_sub(group[4], group[3]) >>

\* ScalarRawGroupImpl::encode_deltas
ScalarEncodeDeltas(c, mem, off, base, group) ==
  ScalarEncode(c, mem, off, GroupDeltas(base, group))

\* A variant of DecodeValue that does not mask the loaded element.
DecodeValue_mut(c, s, mem, off, tag, i, junk) ==
  LET vtag == BitAnd(Shr(tag, i * 2), 3)
      W    == ELEM_WIDTH(c)
  IN [read  |-> s.read + TAG_LEN(c)[vtag + 1],
      group |-> Append(s.group, ReadElem(mem, off + s.read, W, junk)),
      oob   |-> s.oob \/ off + s.read + W > Len(mem)]

\* One iteration i (0-based) of the unrolled loop of ScalarRawGroupImpl::decode.
DecodeValue(c, s, mem, off, tag, i, junk) ==
  LET vtag == BitAnd(Shr(tag, i * 2), 3)
      W    == ELEM_WIDTH(c)
  IN [read  |-> s.read + TAG_LEN(c)[vtag + 1],
      group |-> Append(s.group,
                       ElemAnd(ReadElem(mem, off + s.read, W, junk), TAG_MAX(c)[vtag + 1])),
      oob   |-> s.oob \/ off + s.read + W > Len(mem)]

\* ScalarRawGroupImpl::decode(input = mem + off, tag): <<read, group>> and
\* whether any load left the buffer.
ScalarDecode(c, mem, off, tag, junk) ==
  LET s0 == [read |-> 0, group |-> <<>>, oob |-> FALSE]
      s1 == DecodeValue(c, s0, mem, off, tag, 0, junk)
      s2 == DecodeValue(c, s1, mem, off, tag, 1, junk)
      s3 == DecodeValue(c, s2, mem, off, tag, 2, junk)
  IN DecodeValue(c, s3, mem, off, tag, 3, junk)

\* A variant of PrefixSum that starts from lane 0 of the base.
PrefixSum_mut(base, deltas) ==
  LET g0 == wrapping_add(base[1], deltas[1])
      g1 == wrapping_add(g0, deltas[2])
      g2 == wrapping_add(g1, deltas[3])
      g3 == wrapping_add(g2, deltas[4])
  IN <<g0, g1, g2, g3>>

\* The prefix sum of ScalarRawGroupImpl::decode_deltas.
PrefixSum(base, deltas) ==
  LET g0 == wrapping_add(base[4], deltas[1])
      g1 == wrapping_add(g0, deltas[2])
      g2 == wrapping_add(g1, deltas[3])
      g3 == wrapping_add(g2, deltas[4])
  IN <<g0, g1, g2, g3>>

\* ScalarRawGroupImpl::decode_deltas, given the result d of Self::decode.
DeltasOfDecoded(d, base) ==
  [read |-> d.read, group |-> PrefixSum(base, d.group), oob |-> d.oob]

\* ScalarRawGroupImpl::decode_deltas
ScalarDecodeDeltas(c, mem, off, tag, base, junk) ==
  DeltasOfDecoded(ScalarDecode(c, mem, off, tag, junk), base)

\* group.0.iter().fold(zero, wrapping_add)
RECURSIVE FoldAdd(_, _)
FoldAdd(acc, s) == IF s = <<>> THEN acc ELSE FoldAdd(wrapping_add(acc, Head(s)), Tail(s))

\* ScalarRawGroupImpl::skip_deltas, given the result d of Self::decode.
SumOfDecoded(d) ==
  [read |-> d.read, sum |-> FoldAdd(ElemZero(Len(d.group[1])), d.group), oob |-> d.oob]

\* ScalarRawGroupImpl::skip_deltas
ScalarSkipDeltas(c, mem, off, tag, junk) ==
  SumOfDecoded(ScalarDecode(c, mem, off, tag, junk))

(***************************************************************************)
(* Eight-group kernels (raw_group.rs defaults).  tag8 is the sequence of   *)
(* the word's eight bytes; (tag8 >> (i * 8)) & 0xff is its byte i.  The    *)
(* loops are unrolled, as unroll! does.                                    *)
(***************************************************************************)
\* A variant of Tag8Byte that takes the bytes of the word from the top.
Tag8Byte_mut(tag8, i) == tag8[8 - i]

Tag8Byte(tag8, i) == tag8[i + 1]

\* A variant of data_len8 that sums seven of the eight bytes.
data_len8_mut(c, tag8) == SumSeq([k \in 1..7 |-> data_len1(c, tag8[k])])

\* RawGroup::data_len8 (default): the byte-wise sum.
data_len8(c, tag8) == SumSeq([k \in 1..8 |-> data_len1(c, tag8[k])])

\* The loop body of the eight-group defaults after the kernel call returned d:
\* store the group at output + i * 4, add to read, keep the group as prev.
Store8(s, oidx, i, d) ==
  [read  |-> s.read + d.read,
   vals  |-> store_unaligned(s.vals, oidx + i * 4, d.group),
   group |-> d.group,
   oob   |-> s.oob \/ d.oob \/ oidx + i * 4 + 4 > Len(s.vals)]

\* Iteration i of default_decode8.
Decode8Step(c, mem, off, tag8, oidx, i, junk, s) ==
  Store8(s, oidx, i, ScalarDecode(c, mem, off + s.read, Tag8Byte(tag8, i), junk))

\* default_decode8(input = mem + off, tag8, output = vals + oidx)
default_decode8(c, mem, off, tag8, vals, oidx, junk) ==
  LET s0 == [read |-> 0, vals |-> vals, group |-> <<>>, oob |-> FALSE]
      s1 == Decode8Step(c, mem, off, tag8, oidx, 0, junk, s0)
      s2 == Decode8Step(c, mem, off, tag8, oidx, 1, junk, s1)
      s3 == Decode8Step(c, mem, off, tag8, oidx, 2, junk, s2)
      s4 == Decode8Step(c, mem, off, tag8, oidx, 3, junk, s3)
      s5 == Decode8Step(c, mem, off, tag8, oidx, 4, junk, s4)
      s6 == Decode8Step(c, mem, off, tag8, oidx, 5, junk, s5)
      s7 == Decode8Step(c, mem, off, tag8, oidx, 6, junk, s6)
  IN Decode8Step(c, mem, off, tag8, oidx, 7, junk, s7)

\* Iteration i of default_decode_deltas8: s.group is prev.
DecodeDeltas8Step(c, mem, off, tag8, oidx, i, junk, s) ==
  Store8(s, oidx, i,
         ScalarDecodeDeltas(c, mem, off + s.read, Tag8Byte(tag8, i), s.group, junk))

\* default_decode_deltas8(input = mem + off, tag8, base, output = vals + oidx):
\* read, the output, and the last group decoded.
default_decode_deltas8(c, mem, off, tag8, base, vals, oidx, junk) ==
  LET s0 == [read |-> 0, vals |-> vals, group |-> base, oob |-> FALSE]
      s1 == DecodeDeltas8Step(c, mem, off, tag8, oidx, 0, junk, s0)
      s2 == DecodeDeltas8Step(c, mem, off, tag8, oidx, 1, junk, s1)
      s3 == DecodeDeltas8Step(c, mem, off, tag8, oidx, 2, junk, s2)
      s4 == DecodeDeltas8Step(c, mem, off, tag8, oidx, 3, junk, s3)
      s5 == DecodeDeltas8Step(c, mem, off, tag8, oidx, 4, junk, s4)
      s6 == DecodeDeltas8Step(c, mem, off, tag8, oidx, 5, junk, s5)
      s7 == DecodeDeltas8Step(c, mem, off, tag8, oidx, 6, junk, s6)
  IN DecodeDeltas8Step(c, mem, off, tag8, oidx, 7, junk, s7)

\* The loop body of default_skip_deltas8 after skip_deltas returned d.
SkipAdd(s, d) ==
  [read |-> s.read + d.read, sum |-> wrapping_add(s.sum, d.sum), oob |-> s.oob \/ d.oob]

\* Iteration i of default_skip_deltas8.
Skip8Step(c, mem, off, tag8, i, junk, s) ==
  SkipAdd(s, ScalarSkipDeltas(c, mem, off + s.read, Tag8Byte(tag8, i), junk))

\* default_skip_deltas8(input = mem + off, tag8): read and the wrapping sum.
default_skip_deltas8(c, mem, off, tag8, junk) ==
  LET s0 == [read |-> 0, sum |-> ElemZero(ELEM_WIDTH(c)), oob |-> FALSE]
      s1 == Skip8Step(c, mem, off, tag8, 0, junk, s0)
      s2 == Skip8Step(c, mem, off, tag8, 1, junk, s1)
      s3 == Skip8Step(c, mem, off, tag8, 2, junk, s2)
      s4 == Skip8Step(c, mem, off, tag8, 3, junk, s3)
      s5 == Skip8Step(c, mem, off, tag8, 4, junk, s4)
      s6 == Skip8Step(c, mem, off, tag8, 5, junk, s5)
      s7 == Skip8Step(c, mem, off, tag8, 6, junk, s6)
  IN Skip8Step(c, mem, off, tag8, 7, junk, s7)

(***************************************************************************)
(* data_len8 of the SIMD backends.  A u64 is its eight little-endian bytes;*)
(* shifts, masks and additions are computed on the bytes.                  *)
(***************************************************************************)
\* w >> k on a u64, for 0 <= k < 64.
U64Shr(w, k) ==
  LET q == k \div 8
      r == k % 8
      byte(j) == IF j <= 8 THEN w[j] ELSE 0
  IN [j \in 1..8 |->
        (Shr(byte(j + q), r) + byte(j + q + 1) * Pow2(8 - r)) % 256]

\* a & b on u64s.
U64And(a, b) == [j \in 1..8 |-> BitAnd(a[j], b[j])]

\* The u64 whose bytes all equal b (0x3333333333333333 for b = 0x33).
U64Splat(b) == [j \in 1..8 |-> b]

\* `w as usize` for a u64 below 2^24; anything larger is reported as 2^24.
U64ToUsize(w) ==
  IF \E j \in 4..8 : w[j] # 0 THEN 16777216
  ELSE w[1] + 256 * w[2] + 65536 * w[3]

\* arch::neon::generate_nibble_tag_len_table: entry k is the source's table[k - 1].
generate_nibble_tag_len_table(tag_len) ==
  [k \in 1..16 |->
     ((tag_len[BitAnd(k - 1, 3) + 1] % 256) +
      (tag_len[BitAnd(Shr(k - 1, 2), 3) + 1] % 256)) % 256]

\* vqtbl1q_u8(table, idx): lane-wise table look-up, 0 for an index above 15.
vqtbl1q_u8(table, idx) ==
  [j \in 1..16 |-> IF idx[j] < 16 THEN table[idx[j] + 1] ELSE 0]

\* A variant of neon_data_len8 that forgets the second word (tag8 >> 4):
\* both halves of the vector hold the low nibbles.
neon_data_len8_mut(tag_len, tag8) ==
  LET loaded      == tag8 \o tag8
      nibble_tags == [j \in 1..16 |-> BitAnd(loaded[j], 15)]
  IN SumSeq(vqtbl1q_u8(generate_nibble_tag_len_table(tag_len), nibble_tags))

\* arch::neon::data_len8: a nibble in each of 16 lanes (the bytes of tag8, then
\* the bytes of tag8 >> 4, each masked with 0xf), looked up and summed.
neon_data_len8(tag_len, tag8) ==
  LET loaded      == tag8 \o U64Shr(tag8, 4)
      nibble_tags == [j \in 1..16 |-> BitAnd(loaded[j], 15)]
  IN SumSeq(vqtbl1q_u8(generate_nibble_tag_len_table(tag_len), nibble_tags))

\* coder1234::ssse3::RawGroupImpl::data_len8: the sum of the 32 two-bit fields,
\* by halving, plus 32.
ssse3_data_len8(tag8) ==
  LET m16   == <<255, 0, 255, 0, 255, 0, 255, 0>>
      m32   == <<255, 255, 0, 0, 255, 255, 0, 0>>
      m64   == <<255, 255, 255, 255, 0, 0, 0, 0>>
      sum4  == wrapping_add(U64And(U64Shr(tag8, 2), U64Splat(51)),
                            U64And(tag8, U64Splat(51)))
      sum8  == wrapping_add(U64And(U64Shr(sum4, 4), U64Splat(15)),
                            U64And(sum4, U64Splat(15)))
      sum16 == wrapping_add(U64And(U64Shr(sum8, 8), m16), U64And(sum8, m16))
      sum32 == wrapping_add(U64And(U64Shr(sum16, 16), m32), U64And(sum16, m32))
      sum64 == wrapping_add(U64And(U64Shr(sum32, 32), m64), U64And(sum32, m64))
  IN U64ToUsize(sum64) + 32

(***************************************************************************)
(* Codec handle and stream driver (lib.rs, group_impl.rs).                 *)
(***************************************************************************)
\* A variant of max_compressed_bytes that rounds the group count down.
max_compressed_bytes_mut(c, len) ==
  LET num_groups == len \div 4
  IN <<num_groups, num_groups * 4 * ELEM_WIDTH(c)>>

\* Group32::max_compressed_bytes / Group64::max_compressed_bytes
max_compressed_bytes(c, len) ==
  LET num_groups == (len + 3) \div 4
  IN <<num_groups, num_groups * 4 * ELEM_WIDTH(c)>>

\* A variant of data_len that skips chunks_exact's remainder.
data_len_mut(c, tgs) ==
  LET nchunks == Len(tgs) \div 8
  IN SumSeq([j \in 1..nchunks |-> data_len8(c, SubSeq(tgs, 8 * j - 7, 8 * j))])

\* group_impl::data_len: the remainder of chunks_exact(8) tag by tag, then
\* every chunk of eight through data_len8.
data_len(c, tgs) ==
  LET nchunks   == Len(tgs) \div 8
      remainder == SubSeq(tgs, 8 * nchunks + 1, Len(tgs))
  IN   SumSeq([j \in 1..Len(remainder) |-> data_len1(c, remainder[j])])
     + SumSeq([j \in 1..nchunks |-> data_len8(c, SubSeq(tgs, 8 * j - 7, 8 * j))])

\* EncodeSink::handle of StandardEncodeSink and DeltaEncodeSink:
\* the kernel's result and the sink's state (the delta base) after the call.
EncodeHandle(c, mode, mem, off, base, group) ==
  IF mode = "delta"
  THEN [r |-> ScalarEncodeDeltas(c, mem, off, base, group), base |-> group]
  ELSE [r |-> ScalarEncode(c, mem, off, group), base |-> base]

\* A variant of StoreGroup that stores one group further on.
StoreGroup_mut(d, tidx, vals, base, sum, keep) ==
  [read |-> d.read, vals |-> store_unaligned(vals, (tidx + 1) * 4, d.group),
   base |-> IF keep THEN d.group ELSE base, sum |-> sum,
   oob  |-> d.oob \/ (tidx + 1) * 4 + 4 > Len(vals)]

\* StandardDecodeSink / DeltaDecodeSink::handle1 after the kernel returned d:
\* store the group at values + tag_index * 4.
StoreGroup(d, tidx, vals, base, sum, keep) ==
  [read |-> d.read, vals |-> store_unaligned(vals, tidx * 4, d.group),
   base |-> IF keep THEN d.group ELSE base, sum |-> sum,
   oob  |-> d.oob \/ tidx * 4 + 4 > Len(vals)]

\* A variant of AddSum that keeps the last group's sum only.
AddSum_mut(d, vals, base, sum) ==
  [read |-> d.read, vals |-> vals, base |-> base, sum |-> d.sum, oob |-> d.oob]

\* SkipDeltasSink::handle1 / handle8 after the kernel returned d.
AddSum(d, vals, base, sum) ==
  [read |-> d.read, vals |-> vals, base |-> base,
   sum  |-> wrapping_add(sum, d.sum), oob |-> d.oob]

\* A variant of Stored8 in which the sink keeps its old base.
Stored8_mut(d, base, sum, keep) ==
  [read |-> d.read, vals |-> d.vals, base |-> base, sum |-> sum, oob |-> d.oob]

\* StandardDecodeSink / DeltaDecodeSink::handle8 after the kernel returned d.
Stored8(d, base, sum, keep) ==
  [read |-> d.read, vals |-> d.vals, base |-> IF keep THEN d.group ELSE base,
   sum  |-> sum, oob |-> d.oob]

\* DecodeSink::handle1 of StandardDecodeSink, DeltaDecodeSink and SkipDeltasSink:
\* bytes read, the output slice, the delta base and the skip sum after the call.
Handle1(c, sink, mem, off, tag, tidx, vals, base, sum, junk) ==
  CASE sink = "std" ->
         StoreGroup(ScalarDecode(c, mem, off, tag, junk), tidx, vals, base, sum, FALSE)
    [] sink = "delta" ->
         StoreGroup(ScalarDecodeDeltas(c, mem, off, tag, base, junk), tidx, vals, base,
                    sum, TRUE)
    [] sink = "skip" ->
         AddSum(ScalarSkipDeltas(c, mem, off, tag, junk), vals, base, sum)

\* DecodeSink::handle8 of the three sinks.
Handle8(c, sink, mem, off, tag8, tidx, vals, base, sum, junk) ==
  CASE sink = "std" ->
         Stored8(default_decode8(c, mem, off, tag8, vals, tidx * 4, junk), base, sum,
                 FALSE)
    [] sink = "delta" ->
         Stored8(default_decode_deltas8(c, mem, off, tag8, base, vals, tidx * 4, junk),
                 base, sum, TRUE)
    [] sink = "skip" ->
         AddSum(default_skip_deltas8(c, mem, off, tag8, junk), vals, base, sum)

(***************************************************************************)
(* Inputs of the model.                                                    *)
(***************************************************************************)
\* Representative 32-bit elements: 0, 0xff, 0x100, 0x1ffff, 0x1000000,
\* 0xffffffff, 0x1234.
Elems32 ==
  << <<0, 0, 0, 0>>, <<255, 0, 0, 0>>, <<0, 1, 0, 0>>, <<255, 255, 1, 0>>,
     <<0, 0, 0, 1>>, <<255, 255, 255, 255>>, <<52, 18, 0, 0>> >>

\* Representative 64-bit elements: 0, 0xff, 0x100, 0xffffffff, 0x1_0000_0000,
\* 0xff_ffff_ffff_ffff, u64::MAX.
Elems64 ==
  << <<0, 0, 0, 0, 0, 0, 0, 0>>, <<255, 0, 0, 0, 0, 0, 0, 0>>,
     <<0, 1, 0, 0, 0, 0, 0, 0>>, <<255, 255, 255, 255, 0, 0, 0, 0>>,
     <<0, 0, 0, 0, 1, 0, 0, 0>>, <<255, 255, 255, 255, 255, 255, 255, 0>>,
     <<255, 255, 255, 255, 255, 255, 255, 255>> >>

Elems(c) == IF c = "1248" THEN Elems64 ELSE Elems32

\* Element number j (0-based, modulo the list) of the representative elements.
ElemAt(c, j) == Elems(c)[(j % Len(Elems(c))) + 1]

\* The input slices: n elements walking the representative list from `seed`
\* in steps of `stride` (stride 0: a constant slice).  The patterns, as
\* <<seed, stride>>: all zero, all Elem::MAX, and two walks through every width.
Patterns == { <<0, 0>>, <<5, 0>>, <<0, 1>>, <<3, 1>> }
GenValues(c, n, seed, stride) == [i \in 1..n |-> ElemAt(c, seed + (i - 1) * stride)]

\* Caller set-ups: plain encode, delta encode from 0, delta encode from a large
\* initial value (u32::MAX, 2^56 - 1).
Setups == { <<"plain", 1>>, <<"delta", 0>>, <<"delta", 5>> }

\* A freshly allocated caller buffer (its contents are the caller's choice).
FreshBuffer(n) == [k \in 1..n |-> 170]

\* The data slices a caller hands to the decoders after an encode that
\* returned n: data[..n], the whole buffer, or one byte short of n.
Slices == {"exact", "full", "short"}
SliceLen(slice, n, cap) ==
  CASE slice = "exact" -> n
    [] slice = "full"  -> cap
    [] slice = "short" -> IF n > 0 THEN n - 1 ELSE 0

\* Bytes the out-of-bounds world may hold.
JunkBytes == {0, 255}

\* The decode calls of one session, in order.
NextSink(sink) ==
  CASE sink = "std" -> "delta" [] sink = "delta" -> "skip" [] sink = "skip" -> "none"

(***************************************************************************)
(* State.                                                                  *)
(***************************************************************************)
VARIABLES
  coder,      \* the parameterization in use
  enc_mode,   \* "plain" (encode) or "delta" (encode_deltas)
  initial,    \* the caller's initial value
  values,     \* the caller's input slice
  tags,       \* the caller's tag buffer
  data,       \* the caller's data buffer
  pc,         \* position of the session
  written,    \* encode_to_sink: written
  enc_g,      \* encode_to_sink: index of the next chunk of the zip
  enc_base,   \* DeltaEncodeSink.0
  enc_ret,    \* value returned by encode / encode_deltas
  ret_len,    \* value returned by data_len(tags[..N/4])
  dsink,      \* the decode call in progress: "std", "delta" or "skip"
  dtags,      \* decode_to_sink: tags
  ddata,      \* decode_to_sink: data
  out,        \* the caller's output slice (values)
  read,       \* decode_to_sink: read
  tag_index,  \* decode_to_sink: tag_index
  dbase,      \* DeltaDecodeSink.1
  dsum,       \* SkipDeltasSink.0
  buf,        \* decode_to_sink: buf
  bufr,       \* decode_to_sink: bufr
  dstatus,    \* "run", or how the call ended: "ok" or the assertion that failed
  res,        \* per decode call: how it ended and what it returned
  oob,        \* some kernel access fell outside its buffer
  fn,         \* a direct call of a pure function: its name, argument and result
  seek        \* the group index a caller resumes at

encVars == <<written, enc_g, enc_base, enc_ret>>
decVars == <<dsink, dtags, ddata, out, read, tag_index, dbase, dsum, buf, bufr, dstatus>>
inVars  == <<coder, enc_mode, initial, values, fn, seek>>
vars == <<coder, enc_mode, initial, values, fn, seek, tags, data, pc, written, enc_g, enc_base,
          enc_ret, ret_len, dsink, dtags, ddata, out, read, tag_index, dbase, dsum,
          buf, bufr, dstatus, res, oob>>

W == ELEM_WIDTH(coder)
\* G::TAG_LEN[3] and G::TAG_LEN[0]
TAG_LEN3 == TAG_LEN(coder)[4]
TAG_LEN0 == TAG_LEN(coder)[1]

NoResult == [status |-> "none", read |-> 0, out |-> <<>>, sum |-> <<>>]
NoCall == [op |-> "none", arg |-> <<>>, ret |-> <<>>]

\* Everything of a session before its first call.
Idle ==
  /\ written = 0 /\ enc_g = 0 /\ enc_base = <<>> /\ enc_ret = 0
  /\ ret_len = 0
  /\ dsink = "none" /\ dtags = <<>> /\ ddata = <<>> /\ out = <<>>
  /\ read = 0 /\ tag_index = 0 /\ dbase = <<>> /\ dsum = <<>>
  /\ buf = <<>> /\ bufr = 0 /\ dstatus = "none"
  /\ res = [s \in {"std", "delta", "skip"} |-> NoResult]
  /\ oob = FALSE

Init ==
  /\ coder \in Coders
  /\ \E su \in Setups, n \in 0..(4 * MaxGroups), pat \in Patterns :
       /\ enc_mode = su[1]
       /\ initial = ElemAt(coder, su[2])
       /\ values = GenValues(coder, n, pat[1], pat[2])
       /\ tags = FreshBuffer(max_compressed_bytes(coder, n)[1])
       /\ data = FreshBuffer(max_compressed_bytes(coder, n)[2])
  /\ pc = "encode"
  /\ fn = NoCall
  /\ seek = 0
  /\ Idle

(***************************************************************************)
(* encode / encode_deltas (encode_to_sink).                                *)
(***************************************************************************)
\* A variant of EncodeChecks without the assertion on data.len().
EncodeChecks_mut(c, vals, tgs, dat) ==
  /\ Len(vals) % 4 = 0
  /\ Len(vals) \div 4 <= Len(tgs)

\* The assertions at the head of encode_to_sink.
EncodeChecks(c, vals, tgs, dat) ==
  /\ Len(vals) % 4 = 0
  /\ Len(vals) \div 4 <= Len(tgs)
  /\ (Len(vals) \div 4) * TAG_LEN(c)[4] * 4 <= Len(dat)

\* Call entry: the three assertions, then the sink is built.
EncodeEntry ==
  /\ pc = "encode"
  /\ IF EncodeChecks(coder, values, tags, data)
     THEN /\ pc' = "encode_loop"
          /\ written' = 0
          /\ enc_g' = 0
          /\ enc_base' = set1(initial)
     ELSE /\ pc' = "panic"
          /\ UNCHANGED <<written, enc_g, enc_base>>
  /\ UNCHANGED <<inVars, tags, data, enc_ret, ret_len, decVars, res, oob>>

\* One iteration of the loop over values.chunks_exact(4).zip(tags.iter_mut()).
EncodeGroup ==
  /\ pc = "encode_loop"
  /\ enc_g < Min(Len(values) \div 4, Len(tags))
  /\ LET group == load_unaligned(values, enc_g * 4)
         h     == EncodeHandle(coder, enc_mode, data, written, enc_base, group)
     IN /\ data' = h.r.mem
        /\ tags' = [tags EXCEPT ![enc_g + 1] = h.r.tag]
        /\ written' = written + h.r.written
        /\ enc_base' = h.base
        /\ oob' = (oob \/ h.r.oob)
  /\ enc_g' = enc_g + 1
  /\ UNCHANGED <<inVars, pc, enc_ret, ret_len, decVars, res>>

\* The loop is over: encode returns written.  The caller then picks the
\* slices it will hand to data_len and the decoders.
EncodeReturn ==
  /\ pc = "encode_loop"
  /\ enc_g = Min(Len(values) \div 4, Len(tags))
  /\ enc_ret' = written
  /\ dtags' = SubSeq(tags, 1, Len(values) \div 4)
  /\ \E slice \in Slices :
       ddata' = SubSeq(data, 1, SliceLen(slice, written, Len(data)))
  /\ pc' = "data_len"
  /\ UNCHANGED <<inVars, tags, data, written, enc_g, enc_base, ret_len, dsink, out,
                 read, tag_index, dbase, dsum, buf, bufr, dstatus, res, oob>>

\* data_len(tags[..N/4])
DataLen ==
  /\ pc = "data_len"
  /\ ret_len' = data_len(coder, dtags)
  /\ dsink' = "std"
  /\ pc' = "call"
  /\ UNCHANGED <<inVars, tags, data, encVars, dtags, ddata, out, read, tag_index,
                 dbase, dsum, buf, bufr, dstatus, res, oob>>

(***************************************************************************)
(* decode / decode_deltas / skip_deltas (decode_to_sink).                  *)
(***************************************************************************)
\* The assertions at the head of decode and decode_deltas (skip_deltas has none).
DecodeChecks(sink, tgs, vals) ==
  sink = "skip" \/ (Len(vals) % 4 = 0 /\ Len(tgs) >= Len(vals) \div 4)

\* Call entry of decode, decode_deltas or skip_deltas: the caller's output
\* slice is vec![0; N]; the sink is built and decode_to_sink starts.
DecodeCall ==
  /\ pc = "call"
  /\ out' = [k \in 1..Len(values) |-> ElemZero(W)]
  /\ read' = 0
  /\ tag_index' = 0
  /\ dbase' = set1(initial)
  /\ dsum' = ElemZero(W)
  /\ buf' = <<>>
  /\ bufr' = 0
  /\ IF DecodeChecks(dsink, dtags, out')
     THEN pc' = "batch" /\ dstatus' = "run"
     ELSE pc' = "ret" /\ dstatus' = "panic:entry"
  /\ UNCHANGED <<inVars, tags, data, encVars, ret_len, dsink, dtags, ddata, res, oob>>

\* A variant of max_read without the overshoot of the last group.
max_read_mut(c, tag8) == data_len8(c, tag8)

\* let max_read = G::data_len8(tag8) + (G::TAG_LEN[3] - G::TAG_LEN[0]) * 4
max_read(c, tag8) == data_len8(c, tag8) + (TAG_LEN(c)[4] - TAG_LEN(c)[1]) * 4

\* The next chunk of tags.chunks_exact(8), when there is one.
HasChunk == tag_index + 8 <= Len(dtags)
tag_chunk == SubSeq(dtags, tag_index + 1, tag_index + 8)

\* The loop over chunks goes on: there is a chunk and
\* read + max_read <= data.len().
BatchGoesOn == HasChunk /\ read + max_read(coder, tag_chunk) <= Len(ddata)

\* A variant of SingleGoesOn that asks for one byte less.
SingleGoesOn_mut == tag_index < Len(dtags) /\ read + TAG_LEN3 * 4 <= Len(ddata) + 1

\* The loop over single groups goes on: there is a tag and
\* read + TAG_LEN[3] * 4 <= data.len().
SingleGoesOn == tag_index < Len(dtags) /\ read + TAG_LEN3 * 4 <= Len(ddata)

\* One iteration of the chunks_exact(8) loop that passes the headroom test.
DecodeBatch ==
  /\ pc = "batch"
  /\ BatchGoesOn
  /\ \E junk \in JunkBytes :
       LET h == Handle8(coder, dsink, ddata, read, tag_chunk, tag_index, out, dbase,
                        dsum, junk)
       IN /\ read' = read + h.read
          /\ out' = h.vals
          /\ dbase' = h.base
          /\ dsum' = h.sum
          /\ oob' = (oob \/ h.oob)
  /\ tag_index' = tag_index + 8
  /\ UNCHANGED <<inVars, tags, data, pc, encVars, ret_len, dsink, dtags, ddata, buf,
                 bufr, dstatus, res>>

\* The chunks are exhausted, or the headroom test fails and the loop breaks.
DecodeBatchBreak ==
  /\ pc = "batch"
  /\ ~BatchGoesOn
  /\ pc' = "single"
  /\ UNCHANGED <<inVars, tags, data, encVars, ret_len, decVars, res, oob>>

\* One iteration of the loop over &tags[tag_index..] that decodes from data.
DecodeSingle ==
  /\ pc = "single"
  /\ SingleGoesOn
  /\ \E junk \in JunkBytes :
       LET h == Handle1(coder, dsink, ddata, read, dtags[tag_index + 1], tag_index, out,
                        dbase, dsum, junk)
       IN /\ read' = read + h.read
          /\ out' = h.vals
          /\ dbase' = h.base
          /\ dsum' = h.sum
          /\ oob' = (oob \/ h.oob)
  /\ tag_index' = tag_index + 1
  /\ UNCHANGED <<inVars, tags, data, pc, encVars, ret_len, dsink, dtags, ddata, buf,
                 bufr, dstatus, res>>

\* A variant of DecodeSingleBreak that goes back to the loop over chunks.
DecodeSingleBreak_mut ==
  /\ pc = "single"
  /\ ~SingleGoesOn
  /\ pc' = IF HasChunk THEN "batch" ELSE "tail"
  /\ UNCHANGED <<inVars, tags, data, encVars, ret_len, decVars, res, oob>>

\* The tags are exhausted, or fewer than TAG_LEN[3] * 4 bytes remain: break.
DecodeSingleBreak ==
  /\ pc = "single"
  /\ ~SingleGoesOn
  /\ pc' = "tail"
  /\ UNCHANGED <<inVars, tags, data, encVars, ret_len, decVars, res, oob>>

\* let remainder = &tags[tag_index..]: when it is not empty, assert
\* read <= data.len() and copy data[read..] into the zeroed 64-byte buf.
DecodeTail ==
  /\ pc = "tail"
  /\ IF tag_index >= Len(dtags)
     THEN pc' = "ret" /\ dstatus' = "ok" /\ UNCHANGED <<buf, bufr>>
     ELSE IF read > Len(ddata)
     THEN pc' = "ret" /\ dstatus' = "panic:read" /\ UNCHANGED <<buf, bufr>>
     ELSE IF Len(ddata) - read > 64
     THEN pc' = "ret" /\ dstatus' = "panic:copy" /\ UNCHANGED <<buf, bufr>>
     ELSE /\ buf' = [k \in 1..64 |->
                       IF k <= Len(ddata) - read THEN ddata[read + k] ELSE 0]
          /\ bufr' = 0
          /\ pc' = "scratch"
          /\ UNCHANGED dstatus
  /\ UNCHANGED <<inVars, tags, data, encVars, ret_len, dsink, dtags, ddata, out, read,
                 tag_index, dbase, dsum, res, oob>>

\* One iteration of the loop over remainder: assert bufr < TAG_LEN[3] * 4,
\* then decode one group from buf.
DecodeScratch ==
  /\ pc = "scratch"
  /\ tag_index < Len(dtags)
  /\ IF bufr >= TAG_LEN3 * 4
     THEN /\ pc' = "ret"
          /\ dstatus' = "panic:bufr"
          /\ UNCHANGED <<bufr, out, dbase, dsum, tag_index, oob>>
     ELSE /\ \E junk \in JunkBytes :
               LET h == Handle1(coder, dsink, buf, bufr, dtags[tag_index + 1], tag_index,
                                out, dbase, dsum, junk)
               IN /\ bufr' = bufr + h.read
                  /\ out' = h.vals
                  /\ dbase' = h.base
                  /\ dsum' = h.sum
                  /\ oob' = (oob \/ h.oob)
          /\ tag_index' = tag_index + 1
          /\ UNCHANGED <<pc, dstatus>>
  /\ UNCHANGED <<inVars, tags, data, encVars, ret_len, dsink, dtags, ddata, read, buf,
                 res>>

\* A variant of DecodeScratchEnd without the final assertion.
DecodeScratchEnd_mut ==
  /\ pc = "scratch"
  /\ tag_index >= Len(dtags)
  /\ read' = read + bufr
  /\ dstatus' = "ok"
  /\ pc' = "ret"
  /\ UNCHANGED <<inVars, tags, data, encVars, ret_len, dsink, dtags, ddata, out,
                 tag_index, dbase, dsum, buf, bufr, res, oob>>

\* After the loop over remainder: read += bufr; assert read <= data.len().
DecodeScratchEnd ==
  /\ pc = "scratch"
  /\ tag_index >= Len(dtags)
  /\ read' = read + bufr
  /\ dstatus' = IF read' <= Len(ddata) THEN "ok" ELSE "panic:overread"
  /\ pc' = "ret"
  /\ UNCHANGED <<inVars, tags, data, encVars, ret_len, dsink, dtags, ddata, out,
                 tag_index, dbase, dsum, buf, bufr, res, oob>>

\* The call is over (it returned read, or it panicked): the caller records the
\* outcome and goes on to its next call.
DecodeReturn ==
  /\ pc = "ret"
  /\ res' = [res EXCEPT ![dsink] =
               [status |-> dstatus, read |-> read, out |-> out, sum |-> dsum]]
  /\ dsink' = NextSink(dsink)
  /\ pc' = IF NextSink(dsink) = "none" THEN "done" ELSE "call"
  /\ UNCHANGED <<inVars, tags, data, encVars, ret_len, dtags, ddata, out, read,
                 tag_index, dbase, dsum, buf, bufr, dstatus, oob>>

Next ==
  \/ EncodeEntry
  \/ EncodeGroup
  \/ EncodeReturn
  \/ DataLen
  \/ DecodeCall
  \/ DecodeBatch
  \/ DecodeBatchBreak
  \/ DecodeSingle
  \/ DecodeSingleBreak
  \/ DecodeTail
  \/ DecodeScratch
  \/ DecodeScratchEnd
  \/ DecodeReturn

Spec == Init /\ [][Next]_vars

TypeOK ==
  /\ pc \in {"encode", "encode_loop", "panic", "data_len", "call", "batch", "single",
             "tail", "scratch", "ret", "done", "fn_call", "fn_done"}
  /\ ~oob

(***************************************************************************)
(* Direct calls of the pure functions: tag_value, data_len and the         *)
(* data_len8 of each backend, each on an argument of its own.              *)
(***************************************************************************)
\* Bytes an element is built from.
ByteVals == {0, 1, 255}
\* Every element whose bytes are drawn from ByteVals.
ElemSpace(c) == [1..ELEM_WIDTH(c) -> ByteVals]

TagSeeds == {0, 27, 228, 255}
TagStrides == {0, 1, 37, 85}
\* A tag slice of n bytes.
GenTags(n, seed, stride) == [i \in 1..n |-> (seed + (i - 1) * stride) % 256]

FnInit ==
  /\ coder \in Coders
  /\ enc_mode = "plain" /\ initial = ElemZero(ELEM_WIDTH(coder))
  /\ values = <<>> /\ tags = <<>> /\ data = <<>>
  /\ pc = "fn_call"
  /\ seek = 0
  /\ Idle
  /\ \/ \E v \in ElemSpace(coder) :
          fn = [op |-> "tag_value", arg |-> v, ret |-> <<>>]
     \/ \E n \in 0..MaxTagLen, seed \in TagSeeds, stride \in TagStrides :
          fn = [op |-> "data_len", arg |-> GenTags(n, seed, stride), ret |-> <<>>]
     \/ \E seed \in 0..255, stride \in TagStrides :
          fn = [op |-> "data_len8", arg |-> GenTags(8, seed, stride), ret |-> <<>>]

fnRest == <<coder, enc_mode, initial, values, seek, tags, data, encVars, ret_len, decVars,
            res, oob>>

\* G::tag_value(value)
FnTagValue ==
  /\ pc = "fn_call" /\ fn.op = "tag_value"
  /\ fn' = [fn EXCEPT !.ret = tag_value(coder, fn.arg)]
  /\ pc' = "fn_done"
  /\ UNCHANGED fnRest

\* data_len(tags)
FnDataLen ==
  /\ pc = "fn_call" /\ fn.op = "data_len"
  /\ fn' = [fn EXCEPT !.ret = <<data_len(coder, fn.arg)>>]
  /\ pc' = "fn_done"
  /\ UNCHANGED fnRest

\* data_len8(tag8) of the default implementation, of the NEON backend and, for
\* 1234, of the SSSE3 backend (0 stands for "no such backend").
FnDataLen8 ==
  /\ pc = "fn_call" /\ fn.op = "data_len8"
  /\ fn' = [fn EXCEPT !.ret =
              << data_len8(coder, fn.arg),
                 neon_data_len8(TAG_LEN(coder), fn.arg),
                 IF coder = "1234" THEN ssse3_data_len8(fn.arg) ELSE 0 >>]
  /\ pc' = "fn_done"
  /\ UNCHANGED fnRest

FnNext ==
  \/ FnTagValue
  \/ FnDataLen
  \/ FnDataLen8

SpecFn == FnInit /\ [][FnNext]_vars

(***************************************************************************)
(* Properties of a session.                                                *)
(***************************************************************************)
\* encode / encode_deltas has returned.
EncodeDone ==
  pc \in {"data_len", "call", "batch", "single", "tail", "scratch", "ret", "done"}

\* data_len has returned.
DataLenDone == pc \in {"call", "batch", "single", "tail", "scratch", "ret", "done"}

\* The caller handed data[..n] to the decoders, n the value encode returned.
ExactSlice == Len(ddata) = enc_ret

\* The decode call of the given sink has returned or panicked.
Called(sink) == res[sink].status # "none"

\* C1. Round trip: with tags and data sized by max_compressed_bytes(N) and
\* n = encode(vs, tags, data), the call decode(tags[..N/4], data[..n], out) with
\* out.len() = N returns and leaves out equal to vs, element for element.
C1_RoundTrip ==
  (enc_mode = "plain" /\ ExactSlice /\ Called("std"))
    => (res["std"].status = "ok" /\ res["std"].out = values)

\* A session of nine groups of 64-bit values, not all zero, through encode and
\* decode on data[..n] with n below the buffer's size.
C1_Witness ==
  /\ pc = "done" /\ enc_mode = "plain" /\ coder = "1248"
  /\ Len(values) = 36 /\ ExactSlice /\ enc_ret < Len(data)
  /\ \E j \in 1..Len(values) : values[j] # ElemZero(8)
  /\ res["std"].out = values

C3_SkipEqualsSum ==
  (enc_mode = "delta" /\ ExactSlice /\ Called("skip") /\ Len(values) > 0)
    => /\ res["skip"].status = "ok"
       /\ res["skip"].read = enc_ret
       /\ res["skip"].sum = wrapping_sub(values[Len(values)], initial)

\* A skip over nine groups whose last value is below the initial value, so
\* that the difference wraps.
C3_Witness ==
  /\ pc = "done" /\ enc_mode = "delta" /\ ExactSlice /\ Len(values) = 36
  /\ res["skip"].status = "ok" /\ res["skip"].read > 0
  /\ values[36][W] < initial[W]
  /\ res["skip"].sum # ElemZero(W)

\* initial plus the sum of elements 1..j of s, wrapping.
RECURSIVE SumTo(_, _, _)
SumTo(base, s, j) == IF j = 0 THEN base ELSE wrapping_add(SumTo(base, s, j - 1), s[j])

\* C4. Delta decode against plain decode: on any tags and data on which both
\* return, element j of decode_deltas' output is initial plus the sum of
\* elements 0..=j of decode's output (wrapping), and both return the same count.
C4_DeltaIsPrefixSum ==
  (res["std"].status = "ok" /\ res["delta"].status = "ok")
    => /\ res["delta"].read = res["std"].read
       /\ Len(res["delta"].out) = Len(res["std"].out)
       /\ \A j \in 1..Len(res["std"].out) :
            res["delta"].out[j] = SumTo(initial, res["std"].out, j)

\* Both calls returned on a stream of at least eight groups with a non-zero
\* initial value; the plain output has non-zero elements.
C4_Witness ==
  /\ res["std"].status = "ok" /\ res["delta"].status = "ok"
  /\ initial # ElemZero(W) /\ Len(res["std"].out) >= 32
  /\ \E j \in 1..Len(res["std"].out) : res["std"].out[j] # ElemZero(W)
  /\ res["delta"].out # res["std"].out

\* The value-tag of v: the first component of tag_value's result.
ValueTag(c, v) == tag_value(c, v)[1]

\* The data stream of the first j values of vals: the low tag_len[value-tag]
\* bytes of each, in order.
RECURSIVE StreamOf(_, _, _)
StreamOf(c, vals, j) ==
  IF j = 0 THEN <<>>
  ELSE StreamOf(c, vals, j - 1)
         \o SubSeq(vals[j], 1, TAG_LEN(c)[ValueTag(c, vals[j]) + 1])

\* C5. Wire format: after n = encode(vs, tags, data), bits [2i, 2i+2) of tags[g]
\* are the value-tag of vs[4g+i], and data[..n] is the concatenation, in group
\* order then value order, of the low tag_len[value-tag] bytes of each value,
\* little-endian, with no padding.
C5_WireFormat ==
  (enc_mode = "plain" /\ EncodeDone)
    => /\ \A g \in 0..((Len(values) \div 4) - 1) : \A i \in 0..3 :
            (tags[g + 1] \div Pow2(2 * i)) % 4 = ValueTag(coder, values[4 * g + i + 1])
       /\ enc_ret = Len(StreamOf(coder, values, Len(values)))
       /\ SubSeq(data, 1, enc_ret) = StreamOf(coder, values, Len(values))

\* An encoded stream of at least two groups holding a tag byte whose four
\* value-tags are not all equal.
C5_Witness ==
  /\ enc_mode = "plain" /\ EncodeDone /\ Len(values) >= 8 /\ enc_ret > 0
  /\ \E g \in 1..(Len(values) \div 4) : tags[g] \notin {0, 85, 170, 255}

\* The decode call whose count is compared with encode's.
LenSink == IF enc_mode = "plain" THEN "std" ELSE "delta"

CeilDiv4(n) == CHOOSE k \in 0..n : 4 * k >= n /\ 4 * k < n + 4

Returned(op) == pc = "fn_done" /\ fn.op = op

\* a <= b as unsigned integers, comparing from byte k (1-based) downwards.
RECURSIVE LeqFrom(_, _, _)
LeqFrom(a, b, k) ==
  IF k = 0 THEN TRUE
  ELSE IF a[k] # b[k] THEN a[k] < b[k]
  ELSE LeqFrom(a, b, k - 1)

ElemLeq(a, b) == LeqFrom(a, b, Len(a))

\* The number of bytes up to the highest non-zero byte of v; 0 for v = 0.
BytesNeeded(v) ==
  IF \A k \in 1..Len(v) : v[k] = 0 THEN 0
  ELSE CHOOSE k \in 1..Len(v) : v[k] # 0 /\ \A m \in (k + 1)..Len(v) : v[m] = 0

\* The value-tag by the number of bytes the value needs.
TagOfBytes(c, nbytes) ==
  CASE c = "1234" -> IF nbytes <= 1 THEN 0 ELSE nbytes - 1
    [] c = "0124" -> IF nbytes <= 2 THEN nbytes ELSE 3
    [] c = "1248" -> IF nbytes <= 1 THEN 0
                     ELSE IF nbytes = 2 THEN 1
                     ELSE IF nbytes <= 4 THEN 2 ELSE 3

\* C6. Minimality of the tag: tag_value(v) returns (t, TAG_LEN[t]) with t the
\* smallest index in 0..4 such that v <= TAG_MAX[t]; by bytes needed, 0124 maps
\* 0->0, 1->1, 2->2, 3 or 4->3 and 1248 maps 0 or 1->0, 2->1, 3..4->2, 5..8->3.
C6_TagMinimal ==
  Returned("tag_value")
    => LET v == fn.arg
           t == fn.ret[1]
       IN /\ t \in 0..3
          /\ fn.ret[2] = TAG_LEN(coder)[t + 1]
          /\ ElemLeq(v, TAG_MAX(coder)[t + 1])
          /\ \A u \in 0..(t - 1) : ~ElemLeq(v, TAG_MAX(coder)[u + 1])
          /\ t = TagOfBytes(coder, BytesNeeded(v))

\* tag_value returned for a 64-bit value of three bytes, which takes the
\* four-byte tag.
C6_Witness ==
  /\ Returned("tag_value") /\ coder = "1248"
  /\ fn.arg = <<1, 0, 255, 0, 0, 0, 0, 0>>
  /\ fn.ret = <<2, 4>>

\* tag_len[t&3] + tag_len[(t>>2)&3] + tag_len[(t>>4)&3] + tag_len[(t>>6)&3]
TagFieldSum(c, t) ==
    TAG_LEN(c)[(t % 4) + 1]
  + TAG_LEN(c)[((t \div 4) % 4) + 1]
  + TAG_LEN(c)[((t \div 16) % 4) + 1]
  + TAG_LEN(c)[((t \div 64) % 4) + 1]

\* C8. data_len(tags) for a tag slice of any length, 0 and non-multiples of 8
\* included, is the sum over the tag bytes t of the four tag_len of t's
\* fields, and the 256-entry length table holds that per-tag sum for every t.
C8_DataLenSum ==
  Returned("data_len")
    => /\ fn.ret[1] = SumSeq([j \in 1..Len(fn.arg) |-> TagFieldSum(coder, fn.arg[j])])
       /\ Len(LENGTH_TABLE(coder)) = 256
       /\ \A t \in 0..255 : LENGTH_TABLE(coder)[t + 1] = TagFieldSum(coder, t)

\* data_len returned on thirteen tags: one chunk of eight and a remainder of
\* five, not all equal.
C8_Witness ==
  /\ Returned("data_len") /\ Len(fn.arg) = 13
  /\ fn.arg[1] # fn.arg[13] /\ fn.ret[1] > 0

\* C9. data_len8 agreement: on every packed tag word tag8 the default
\* byte-wise sum, the NEON nibble-table sum and, for 1234, the SSSE3 bit-field
\* sum plus 32 all return the sum of data_len(b) over the eight bytes b of tag8.
C9_DataLen8Agree ==
  Returned("data_len8")
    => LET expect == SumSeq([k \in 1..8 |-> data_len1(coder, fn.arg[k])])
       IN /\ fn.ret[1] = expect
          /\ fn.ret[2] = expect
          /\ coder = "1234" => fn.ret[3] = expect

\* The three implementations returned on a 1234 tag word of eight different
\* bytes, the high nibble of some byte non-zero.
C9_Witness ==
  /\ Returned("data_len8") /\ coder = "1234"
  /\ \A j \in 1..7 : fn.arg[j] # fn.arg[j + 1]
  /\ \E j \in 1..8 : fn.arg[j] >= 16
  /\ fn.ret[3] > 32

(***************************************************************************)
(* encode and encode_deltas on buffers of any size: the caller's tag and   *)
(* data buffers are shorter than, equal to or longer than the encoder      *)
(* needs.                                                                  *)
(***************************************************************************)
\* Largest number of groups of an input slice here.
MaxEncGroups == 2

\* Buffer lengths relative to a need: one short, exact, a few more.
TagSlack == {-1, 0, 2}
DataSlack == {-1, 0, 3}
AtLeast0(n) == IF n < 0 THEN 0 ELSE n

\* values = [1u64, 0x100, 0x10000_0000, 0xFF_FFFF_FFFF_FFFF]
Scenario64 ==
  << <<1, 0, 0, 0, 0, 0, 0, 0>>, <<0, 1, 0, 0, 0, 0, 0, 0>>,
     <<0, 0, 0, 0, 1, 0, 0, 0>>, <<255, 255, 255, 255, 255, 255, 255, 0>> >>

InitEnc ==
  /\ coder \in Coders
  /\ \E su \in Setups :
       /\ enc_mode = su[1]
       /\ initial = ElemAt(coder, su[2])
  /\ \/ \E n \in 0..(4 * MaxEncGroups), pat \in Patterns :
          values = GenValues(coder, n, pat[1], pat[2])
     \/ coder = "1248" /\ values = Scenario64
  /\ \E ts \in TagSlack, ds \in DataSlack :
       /\ tags = FreshBuffer(AtLeast0((Len(values) \div 4) + ts))
       /\ data = FreshBuffer(AtLeast0(ELEM_WIDTH(coder) * Len(values) + ds))
  /\ pc = "encode"
  /\ fn = NoCall
  /\ seek = 0
  /\ Idle

NextEnc ==
  \/ EncodeEntry
  \/ EncodeGroup
  \/ EncodeReturn

SpecEnc == InitEnc /\ [][NextEnc]_vars

\* The element width the claims speak of: 4 for the 32-bit coders, 8 for 1248.
WidthOf(c) == IF c = "1248" THEN 8 ELSE 4

\* The conditions under which encode is said to panic.
EncodeMustPanic ==
  \/ Len(values) % 4 # 0
  \/ Len(tags) < Len(values) \div 4
  \/ Len(data) < WidthOf(coder) * Len(values)

\* C11. encode and encode_deltas panic when values.len() % 4 != 0, or
\* tags.len() < values.len()/4, or data.len() < W * values.len(); the panic
\* happens at entry, before any byte of tags or data has been written.
C11_EncodePanicsAtEntry ==
  /\ EncodeMustPanic => pc \in {"encode", "panic"}
  /\ pc = "panic" =>
       /\ EncodeMustPanic
       /\ tags = FreshBuffer(Len(tags))
       /\ data = FreshBuffer(Len(data))
       /\ written = 0 /\ enc_g = 0

\* encode panicked on eight values with enough tags and a data buffer one
\* byte short.
C11_Witness ==
  /\ pc = "panic" /\ Len(values) = 8 /\ Len(tags) >= 2
  /\ Len(data) = WidthOf(coder) * 8 - 1

\* C15. Frame of encode: encode and encode_deltas on N values leave
\* tags[N/4..] and every data byte at index >= W*N unchanged; for values = []
\* they return 0 and change no byte of tags or data.
C15_EncodeFrame ==
  /\ \A j \in 1..Len(tags) : j > Len(values) \div 4 => tags[j] = FreshBuffer(Len(tags))[j]
  /\ \A j \in 1..Len(data) :
       j > WidthOf(coder) * Len(values) => data[j] = FreshBuffer(Len(data))[j]
  /\ (Len(values) = 0 /\ pc = "data_len") =>
       /\ enc_ret = 0
       /\ tags = FreshBuffer(Len(tags))
       /\ data = FreshBuffer(Len(data))

\* encode returned W * N on eight values of full width, in buffers longer than
\* needed; it wrote up to the last byte before the frame.
C15_Witness ==
  /\ pc = "data_len" /\ Len(values) = 8
  /\ Len(tags) > 2 /\ Len(data) > WidthOf(coder) * 8
  /\ enc_ret = WidthOf(coder) * 8
  /\ data[enc_ret] = 255

\* C16 as stated: under 1248 the group [1, 0x100, 0x10000_0000,
\* 0xFF_FFFF_FFFF_FFFF] gets value-tags 0,1,2,3, the tag byte 0b11_10_01_00 and
\* written = 15.
C16_Original ==
  (coder = "1248" /\ enc_mode = "plain" /\ values = Scenario64 /\ pc = "data_len")
    => (tags[1] = 228 /\ enc_ret = 15)

\* C16, amended. Under 1248 the group [1, 0x100, 0x10000_0000,
\* 0xFF_FFFF_FFFF_FFFF] gets value-tags 0,1,3,3 (0x10000_0000 needs five bytes),
\* the tag byte 0b11_11_01_00 and written = 1+2+8+8 = 19.
C16_WidthSelection ==
  (coder = "1248" /\ enc_mode = "plain" /\ values = Scenario64 /\ pc = "data_len")
    => /\ tags[1] = 244
       /\ enc_ret = 19
       /\ [i \in 1..4 |-> tag_value("1248", values[i])[1]] = <<0, 1, 3, 3>>

\* encode returned on the scenario's group.
C16_Witness ==
  /\ coder = "1248" /\ enc_mode = "plain" /\ values = Scenario64 /\ pc = "data_len"
  /\ enc_ret = 19 /\ SubSeq(data, 1, 3) = <<1, 0, 1>>

(***************************************************************************)
(* decode, decode_deltas and skip_deltas on arbitrary input: any tag       *)
(* bytes, any data bytes, data and output slices of any length.            *)
(***************************************************************************)
\* Largest number of tag bytes here.
MaxDecTags == 10

DecTagSeeds == {0, 228, 255}
DecTagStrides == {0, 37}

\* The four tag_len of the fields of every tag byte, summed.
NeedOf(c, tgs) == SumSeq([j \in 1..Len(tgs) |-> TagFieldSum(c, tgs[j])])

\* <<ds, os>>: the data slice is ds bytes longer than the tags call for, the
\* output slice os elements longer than four per tag.
DecShapes ==
  { <<-9, 0>>, <<-1, 0>>, <<0, 0>>, <<1, 0>>, <<33, 0>>,
    <<0, -4>>, <<33, -4>>, <<0, -2>>, <<0, 4>> }

\* Data bytes of no meaning: none of them zero.
GenData(n) == [i \in 1..n |-> 1 + ((i * 13) % 255)]

InitDec ==
  /\ coder \in Coders
  /\ enc_mode = "plain"
  /\ initial = ElemAt(coder, 1)
  /\ tags = <<>> /\ data = <<>>
  /\ fn = NoCall
  /\ seek = 0
  /\ written = 0 /\ enc_g = 0 /\ enc_base = <<>> /\ enc_ret = 0 /\ ret_len = 0
  /\ \E n \in 0..MaxDecTags, seed \in DecTagSeeds, stride \in DecTagStrides,
        shape \in DecShapes :
       /\ dtags = GenTags(n, seed, stride)
       /\ ddata = GenData(AtLeast0(NeedOf(coder, dtags) + shape[1]))
       /\ values = [k \in 1..AtLeast0(4 * n + shape[2]) |-> ElemZero(ELEM_WIDTH(coder))]
  /\ dsink = "std"
  /\ pc = "call"
  /\ out = <<>> /\ read = 0 /\ tag_index = 0 /\ dbase = <<>> /\ dsum = <<>>
  /\ buf = <<>> /\ bufr = 0 /\ dstatus = "none"
  /\ res = [s \in {"std", "delta", "skip"} |-> NoResult]
  /\ oob = FALSE

NextDec ==
  \/ DecodeCall
  \/ DecodeBatch
  \/ DecodeBatchBreak
  \/ DecodeSingle
  \/ DecodeSingleBreak
  \/ DecodeTail
  \/ DecodeScratch
  \/ DecodeScratchEnd
  \/ DecodeReturn

SpecDec == InitDec /\ [][NextDec]_vars

\* The call of the given sink ended in a panic of decode_to_sink.
Overrun(sink) == res[sink].status \in {"panic:read", "panic:copy", "panic:bufr",
                                        "panic:overread"}

Untouched(o) == \A j \in 1..Len(o) : o[j] = ElemZero(W)

\* C13 as stated: when decode or decode_deltas panics because decoding would
\* consume bytes past the end of data, no element of the values output slice
\* has been written at the moment of the panic.
C13_Original ==
  \A s \in {"std", "delta"} :
    (Overrun(s) /\ Len(values) = 4 * Len(dtags)) => Untouched(res[s].out)

\* C13, amended. When decode or decode_deltas panics because decoding would
\* consume bytes past the end of data, the groups the driver handled before it
\* detected the overrun have already been written to values; only the elements
\* of the groups it had not reached (index >= 4 * groups handled) are unwritten.
C13_PanicAfterPartialOutput ==
  (dsink \in {"std", "delta"} /\ dstatus # "none")
    => \A j \in 1..Len(out) : j > 4 * tag_index => out[j] = ElemZero(W)

\* decode panicked on a data slice one byte short after it had written
\* decoded elements to values.
C13_Witness ==
  /\ dsink = "std" /\ pc = "ret" /\ dstatus = "panic:overread"
  /\ Len(values) = 4 * Len(dtags) /\ Len(dtags) >= 3
  /\ Len(ddata) = NeedOf(coder, dtags) - 1
  /\ ~Untouched(out) /\ tag_index = Len(dtags)

\* C14 as stated: a call of decode or decode_deltas that passes the entry
\* checks, tags.len() > values.len()/4 included, consumes exactly values.len()/4
\* tag bytes and writes no element at index >= values.len().
C14_Original ==
  (dsink \in {"std", "delta"} /\ dstatus \in {"run", "ok"})
    => /\ 4 * tag_index <= Len(out)
       /\ dstatus = "ok" => tag_index = Len(out) \div 4

(***************************************************************************)
(* Random access into an encoded stream: the caller encodes, then decodes  *)
(* from group `seek` on, finding its place with data_len (plain streams)   *)
(* or with skip_deltas (delta streams), as in the examples of the crate    *)
(* documentation.                                                          *)
(***************************************************************************)
\* Largest number of groups of a stream here.
MaxSeekGroups == 10

InitSeek ==
  /\ coder \in Coders
  /\ \E su \in Setups, g \in 0..MaxSeekGroups, pat \in Patterns :
       /\ enc_mode = su[1]
       /\ initial = ElemAt(coder, su[2])
       /\ values = GenValues(coder, 4 * g, pat[1], pat[2])
       /\ tags = FreshBuffer(max_compressed_bytes(coder, 4 * g)[1])
       /\ data = FreshBuffer(max_compressed_bytes(coder, 4 * g)[2])
       /\ seek \in 0..g
       /\ su[1] = "plain" => seek < g
  /\ pc = "encode"
  /\ fn = NoCall
  /\ Idle

\* let n = coder.encode(&values, tags, data)
SeekEncodeReturn ==
  /\ pc = "encode_loop"
  /\ enc_g = Min(Len(values) \div 4, Len(tags))
  /\ enc_ret' = written
  /\ pc' = "seek"
  /\ UNCHANGED <<inVars, tags, data, written, enc_g, enc_base, ret_len, decVars, res,
                 oob>>

\* coder.data_len(&tags[..k])
SeekDataLen ==
  /\ pc = "seek"
  /\ enc_mode = "plain"
  /\ ret_len' = data_len(coder, SubSeq(tags, 1, seek))
  /\ pc' = "seek_decode"
  /\ UNCHANGED <<inVars, tags, data, encVars, decVars, res, oob>>

\* The state of decode_to_sink and of its sink at the start of a call.
SinkStart(sink, tgs, dat, o, base) ==
  /\ dsink' = sink
  /\ dtags' = tgs
  /\ ddata' = dat
  /\ out' = o
  /\ read' = 0
  /\ tag_index' = 0
  /\ dbase' = base
  /\ dsum' = ElemZero(W)
  /\ buf' = <<>>
  /\ bufr' = 0
  /\ IF DecodeChecks(sink, tgs, o)
     THEN pc' = "batch" /\ dstatus' = "run"
     ELSE pc' = "ret" /\ dstatus' = "panic:entry"

\* let mut group = [0; 4];
\* coder.decode(&tags[k..k + 1], &data[data_len..n], &mut group)
SeekDecode ==
  /\ pc = "seek_decode"
  /\ IF ret_len > enc_ret
     THEN pc' = "panic" /\ UNCHANGED decVars
     ELSE SinkStart("std", SubSeq(tags, seek + 1, seek + 1),
                    SubSeq(data, ret_len + 1, enc_ret),
                    [j \in 1..4 |-> ElemZero(W)], set1(initial))
  /\ UNCHANGED <<inVars, tags, data, encVars, ret_len, res, oob>>

\* let (off, s) = coder.skip_deltas(&tags[..k], &data[..n])
SeekSkip ==
  /\ pc = "seek"
  /\ enc_mode = "delta"
  /\ SinkStart("skip", SubSeq(tags, 1, seek), SubSeq(data, 1, enc_ret), <<>>,
               set1(initial))
  /\ UNCHANGED <<inVars, tags, data, encVars, ret_len, res, oob>>

\* skip_deltas returned (read, sum), or panicked.
SeekSkipReturn ==
  /\ pc = "ret"
  /\ dsink = "skip"
  /\ res' = [res EXCEPT !["skip"] =
               [status |-> dstatus, read |-> read, out |-> out, sum |-> dsum]]
  /\ pc' = IF dstatus = "ok" THEN "resume" ELSE "done"
  /\ UNCHANGED <<inVars, tags, data, encVars, ret_len, decVars, oob>>

\* let mut out = vec![0; N - 4 * k];
\* coder.decode_deltas(initial.wrapping_add(s), &tags[k..N / 4], &data[off..n], &mut out)
SeekDecodeDeltas ==
  /\ pc = "resume"
  /\ IF res["skip"].read > enc_ret
     THEN pc' = "panic" /\ UNCHANGED decVars
     ELSE SinkStart("delta", SubSeq(tags, seek + 1, Len(values) \div 4),
                    SubSeq(data, res["skip"].read + 1, enc_ret),
                    [j \in 1..(Len(values) - 4 * seek) |-> ElemZero(W)],
                    set1(wrapping_add(initial, res["skip"].sum)))
  /\ UNCHANGED <<inVars, tags, data, encVars, ret_len, res, oob>>

\* decode or decode_deltas returned read, or panicked.
SeekReturn ==
  /\ pc = "ret"
  /\ dsink \in {"std", "delta"}
  /\ res' = [res EXCEPT ![dsink] =
               [status |-> dstatus, read |-> read, out |-> out, sum |-> dsum]]
  /\ pc' = "done"
  /\ UNCHANGED <<inVars, tags, data, encVars, ret_len, decVars, oob>>

NextSeek ==
  \/ EncodeEntry
  \/ EncodeGroup
  \/ SeekEncodeReturn
  \/ SeekDataLen
  \/ SeekDecode
  \/ SeekSkip
  \/ SeekSkipReturn
  \/ SeekDecodeDeltas
  \/ SeekReturn
  \/ DecodeBatch
  \/ DecodeBatchBreak
  \/ DecodeSingle
  \/ DecodeSingleBreak
  \/ DecodeTail
  \/ DecodeScratch
  \/ DecodeScratchEnd

SpecSeek == InitSeek /\ [][NextSeek]_vars

\* C17. Random access by data_len: after n = encode(vs, tags, data), for every
\* group index k < N/4, decode(tags[k..k+1], data[data_len(tags[..k])..n], group)
\* returns with group == vs[4k..4k+4], also when fewer than W*4 data bytes
\* remain after that offset.
C17_RandomAccess ==
  (enc_mode = "plain" /\ pc \in {"done", "panic"})
    => /\ pc = "done"
       /\ res["std"].status = "ok"
       /\ res["std"].out = SubSeq(values, 4 * seek + 1, 4 * seek + 4)

\* decode returned a group other than the first one, not all zero, from a data
\* slice shorter than W*4 bytes: the group came out of the scratch buffer.
C17_Witness ==
  /\ enc_mode = "plain" /\ pc = "done" /\ seek >= 1
  /\ Len(ddata) > 0 /\ Len(ddata) < WidthOf(coder) * 4
  /\ bufr = Len(ddata)
  /\ res["std"].out = SubSeq(values, 4 * seek + 1, 4 * seek + 4)
  /\ res["std"].out # [j \in 1..4 |-> ElemZero(W)]

Lane(v, w, i) == SubSeq(v, i * w + 1, i * w + w)

\* `let x = e; F(x)`: e is evaluated once and F applied to its value.
Let(e, F(_)) == CHOOSE r \in {F(x) : x \in {e}} : TRUE
Let2(a, b, F(_, _)) == CHOOSE r \in {F(x, y) : x \in {a}, y \in {b}} : TRUE

RECURSIVE Concat(_)
Concat(ls) == IF ls = <<>> THEN <<>> ELSE Head(ls) \o Concat(Tail(ls))

\* The vector whose lanes of w bytes are F applied to the lanes of a.
MapLanes(F(_), a, w) ==
  Let(a, LAMBDA x : Concat([i \in 1..(Len(x) \div w) |-> Let(Lane(x, w, i - 1), F)]))

\* The vector whose lanes of w bytes are F applied to the lanes of a and b.
ZipLanes(F(_, _), a, b, w) ==
  Let2(a, b, LAMBDA x, y :
    Concat([i \in 1..(Len(x) \div w) |-> Let2(Lane(x, w, i - 1), Lane(y, w, i - 1), F)]))

\* The register holding the four elements of a group, and back.
GroupBytes(group) == Concat(group)
GroupOf(v, w) == Let(v, LAMBDA x : [i \in 1..4 |-> Lane(x, w, i - 1)])

\* The n low bytes of the integer x (x < 2^31).
ToBytes(x, n) == Let(x, LAMBDA v : [k \in 1..n |-> (v \div Pow2(8 * (k - 1))) % 256])

\* The unsigned value of a lane of one or two bytes.
U16(l) == l[1] + 256 * l[2]
\* The signed value of a byte and of a 16-bit lane.
S8(x) == IF x >= 128 THEN x - 256 ELSE x
S16(l) == IF l[2] >= 128 THEN U16(l) - 65536 ELSE U16(l)

\* n copies of the lane l.
Splat(l, n) == Concat([i \in 1..n |-> l])

\* a <= b on unsigned lanes.
LaneLeq(a, b) == ElemLeq(a, b)

\* l << n on one lane, 0 <= n < 8 (bits shifted out of the lane are lost).
LaneShl(l, n) ==
  Let(l, LAMBDA x :
    [k \in 1..Len(x) |->
       ((x[k] * Pow2(n)) % 256) + (IF k > 1 THEN (x[k - 1] * Pow2(n)) \div 256 ELSE 0)])

\* l >> n on one lane, 0 <= n < 8.
LaneShr(l, n) ==
  Let(l, LAMBDA x :
    [k \in 1..Len(x) |->
       (x[k] \div Pow2(n)) + (IF k < Len(x) THEN (x[k + 1] * Pow2(8 - n)) % 256 ELSE 0)])

(***************************************************************************)
(* std::arch::x86_64                                                       *)
(***************************************************************************)
mm_set1_epi8(b) == Splat(<<b>>, 16)
mm_set1_epi16(l) == Splat(l, 8)
mm_set1_epi32(l) == Splat(l, 4)
mm_set1_epi64x(l) == Splat(l, 2)

mm_min_epu8(a, b) == Let2(a, b, LAMBDA x, y : [k \in 1..Len(x) |-> Min(x[k], y[k])])
mm_min_epi8(a, b) ==
  Let2(a, b, LAMBDA x, y : [k \in 1..Len(x) |-> IF S8(x[k]) <= S8(y[k]) THEN x[k] ELSE y[k]])

MinU16(x, y) == IF U16(x) <= U16(y) THEN x ELSE y
MinS16(x, y) == IF S16(x) <= S16(y) THEN x ELSE y
mm_min_epu16(a, b) == ZipLanes(MinU16, a, b, 2)
mm_min_epi16(a, b) == ZipLanes(MinS16, a, b, 2)

\* Saturating unsigned 16-bit addition.
AddsU16(x, y) == ToBytes(Min(U16(x) + U16(y), 65535), 2)
mm_adds_epu16(a, b) == ZipLanes(AddsU16, a, b, 2)

mm_add_epi32(a, b) == ZipLanes(wrapping_add, a, b, 4)
mm_sub_epi32(a, b) == ZipLanes(wrapping_sub, a, b, 4)
mm_add_epi64(a, b) == ZipLanes(wrapping_add, a, b, 8)
mm_sub_epi64(a, b) == ZipLanes(wrapping_sub, a, b, 8)

\* Signed 16-bit lanes to unsigned bytes, saturating.
PackUS16(l) ==
  <<IF S16(l) < 0 THEN 0 ELSE IF S16(l) > 255 THEN 255 ELSE S16(l)>>
mm_packus_epi16(a, b) == MapLanes(PackUS16, a, 2) \o MapLanes(PackUS16, b, 2)

\* Signed 32-bit lanes to unsigned 16-bit lanes, saturating.
PackUS32(l) ==
  IF l[4] >= 128 THEN <<0, 0>>
  ELSE IF l[3] # 0 \/ l[4] # 0 THEN <<255, 255>>
  ELSE <<l[1], l[2]>>
mm_packus_epi32(a, b) == MapLanes(PackUS32, a, 4) \o MapLanes(PackUS32, b, 4)

\* The top bit of every byte, byte k at bit k.
mm_movemask_epi8(a) ==
  Let(a, LAMBDA x : SumSeq([k \in 1..Len(x) |-> (x[k] \div 128) * Pow2(k - 1)]))

\* pshufb: 0 where the index has its top bit set, else a[index & 15].
mm_shuffle_epi8(a, idx) ==
  Let2(a, idx, LAMBDA x, y :
    [k \in 1..16 |-> IF y[k] >= 128 THEN 0 ELSE x[(y[k] % 16) + 1]])

\* palignr: bytes n..n+15 of the 32 bytes b (low) then a (high).
mm_alignr_epi8(a, b, n) == SubSeq(b \o a, n + 1, n + 16)

mm_bslli_si128(a, n) == Let(a, LAMBDA x : [k \in 1..16 |-> IF k > n THEN x[k - n] ELSE 0])
mm_bsrli_si128(a, n) ==
  Let(a, LAMBDA x : [k \in 1..16 |-> IF k + n <= 16 THEN x[k + n] ELSE 0])

\* pshufd: lane i is lane (imm >> 2i) & 3 of a.
mm_shuffle_epi32(a, imm) ==
  Let(a, LAMBDA x : Concat([i \in 1..4 |-> Lane(x, 4, BitAnd(Shr(imm, 2 * (i - 1)), 3))]))

\* The low 64 bits.
mm_cvtsi128_si64x(a) == SubSeq(a, 1, 8)

\* AVX2: the two 128-bit halves of a 256-bit register.
Lo128(a) == SubSeq(a, 1, 16)
Hi128(a) == SubSeq(a, 17, 32)
mm256_packus_epi16(a, b) ==
  Let2(a, b, LAMBDA x, y :
    mm_packus_epi16(Lo128(x), Lo128(y)) \o mm_packus_epi16(Hi128(x), Hi128(y)))
mm256_packus_epi32(a, b) ==
  Let2(a, b, LAMBDA x, y :
    mm_packus_epi32(Lo128(x), Lo128(y)) \o mm_packus_epi32(Hi128(x), Hi128(y)))
mm256_shuffle_epi8(a, idx) ==
  Let2(a, idx, LAMBDA x, y :
    mm_shuffle_epi8(Lo128(x), Lo128(y)) \o mm_shuffle_epi8(Hi128(x), Hi128(y)))
\* vpermq: 64-bit lane i is lane (imm >> 2i) & 3 of a.
mm256_permute4x64_epi64(a, imm) ==
  Let(a, LAMBDA x : Concat([i \in 1..4 |-> Lane(x, 8, BitAnd(Shr(imm, 2 * (i - 1)), 3))]))

(***************************************************************************)
(* std::arch::aarch64                                                      *)
(***************************************************************************)
vdupq_n_u8(b) == Splat(<<b>>, 16)
vdupq_n_u32(l) == Splat(l, 4)
vdupq_n_u64(l) == Splat(l, 2)
vdupq_laneq_u32(a, i) == Splat(Lane(a, 4, i), 4)
vdupq_laneq_u64(a, i) == Splat(Lane(a, 8, i), 2)

\* Leading zero bits of every 32-bit lane.
Clz32(l) == ToBytes(leading_zeros(l), 4)
vclzq_u32(a) == MapLanes(Clz32, a, 4)

\* Every 32-bit lane shifted right by n bits (0 <= n < 8).
vshrq_n_u32(a, n) ==
  Let(a, LAMBDA x : Concat([i \in 1..4 |-> LaneShr(Lane(x, 4, i - 1), n)]))

\* Every 32-bit lane i shifted left by sh[i] bits (0 <= sh[i] < 8).
vshlq_u32(a, sh) ==
  Let(a, LAMBDA x : Concat([i \in 1..4 |-> LaneShl(Lane(x, 4, i - 1), sh[i])]))

vaddq_u32(a, b) == ZipLanes(wrapping_add, a, b, 4)
vsubq_u32(a, b) == ZipLanes(wrapping_sub, a, b, 4)
vaddq_u64(a, b) == ZipLanes(wrapping_add, a, b, 8)
vsubq_u64(a, b) == ZipLanes(wrapping_sub, a, b, 8)

\* Saturating unsigned subtraction.
QSub(x, y) == IF LaneLeq(y, x) THEN wrapping_sub(x, y) ELSE ElemZero(Len(x))
vqsubq_u32(a, b) == ZipLanes(QSub, a, b, 4)

\* Sum across the lanes (wrapping in the lane width).
vaddvq_u32(a) == FoldAdd(ElemZero(4), GroupOf(a, 4))
vaddvq_u64(a) == Let(a, LAMBDA x : wrapping_add(Lane(x, 8, 0), Lane(x, 8, 1)))
vpaddd_u64(a) == Let(a, LAMBDA x : wrapping_add(Lane(x, 8, 0), Lane(x, 8, 1)))
vaddvq_u8(a) == SumSeq(a) % 256
vaddv_u8(a) == SumSeq(a) % 256

\* Table look-ups over 32 and 64 bytes: 0 for an index outside the table.
vqtbl2q_u8(table, idx) ==
  Let2(table, idx, LAMBDA t, y : [j \in 1..16 |-> IF y[j] < 32 THEN t[y[j] + 1] ELSE 0])
vqtbl4q_u8(table, idx) ==
  Let2(table, idx, LAMBDA t, y : [j \in 1..16 |-> IF y[j] < 64 THEN t[y[j] + 1] ELSE 0])

\* vextq_u32(a, b, n) / vextq_u64(a, b, n): lanes n.. of a, then lanes of b.
vextq_u32(a, b, n) == SubSeq(a \o b, 4 * n + 1, 4 * n + 16)
vextq_u64(a, b, n) == SubSeq(a \o b, 8 * n + 1, 8 * n + 16)

\* Saturating narrowing of unsigned lanes.
QMovn64(l) == IF \E k \in 5..8 : l[k] # 0 THEN <<255, 255, 255, 255>> ELSE SubSeq(l, 1, 4)
QMovn32(l) == IF l[3] # 0 \/ l[4] # 0 THEN <<255, 255>> ELSE SubSeq(l, 1, 2)
QMovn16(l) == IF l[2] # 0 THEN <<255>> ELSE <<l[1]>>
vqmovn_u64(a) == MapLanes(QMovn64, a, 8)
vqmovn_high_u64(r, a) == r \o MapLanes(QMovn64, a, 8)
vqmovn_u32(a) == MapLanes(QMovn32, a, 4)
vqmovn_u16(a) == MapLanes(QMovn16, a, 2)
vqmovn_high_u16(r, a) == r \o MapLanes(QMovn16, a, 2)

\* Comparisons: all ones where a > b, else zero.
CmpGt(x, y) == IF LaneLeq(x, y) THEN ElemZero(Len(x)) ELSE [k \in 1..Len(x) |-> 255]
vcgtq_u64(a, b) == ZipLanes(CmpGt, a, b, 8)
vcgtq_u32(a, b) == ZipLanes(CmpGt, a, b, 4)
vcgtq_u8(a, b) == ZipLanes(CmpGt, a, b, 1)

vminq_u8(a, b) == mm_min_epu8(a, b)
vminq_u16(a, b) == ZipLanes(MinU16, a, b, 2)
vand_u8(a, b) == Let2(a, b, LAMBDA x, y : [k \in 1..Len(x) |-> BitAnd(x[k], y[k])])

\* Pairwise widening additions.
PAddL8(l) == ToBytes(l[1] + l[2], 2)
PAddL16(l) == ToBytes(U16(SubSeq(l, 1, 2)) + U16(SubSeq(l, 3, 4)), 4)
vpaddlq_u8(a) == MapLanes(PAddL8, a, 2)
vpaddlq_u16(a) == MapLanes(PAddL16, a, 4)

(***************************************************************************)
(* Shuffle tables (arch/shuffle.rs, arch/neon.rs, coder1248/ssse3.rs).     *)
(* An entry is computed for one tag on demand; position k of the source's  *)
(* array is element k + 1 here.                                            *)
(***************************************************************************)
\* The value-tag of value i (0-based) in a tag: (tag >> (i * 2)) & 0x3.
VTag(tag, i) == BitAnd(Shr(tag, i * 2), 3)

\* shuf_idx when the loop over the values reaches value i (0-based).
ShufStart(lens, i) == SumSeq(SubSeq(lens, 1, i))

\* The loops of the encode table generators: the bytes of value i that the
\* tag keeps (i * elem_len + j for j < lens[i]) one after another, then fill.
PackEntry(lens0, elem_len, entry_len, fill) ==
  Let(lens0, LAMBDA lens :
    [k \in 1..entry_len |->
       IF \E i \in 1..Len(lens) :
            ShufStart(lens, i - 1) < k /\ k <= ShufStart(lens, i)
       THEN LET i == CHOOSE i \in 1..Len(lens) :
                       ShufStart(lens, i - 1) < k /\ k <= ShufStart(lens, i)
            IN ((i - 1) * elem_len + (k - 1 - ShufStart(lens, i - 1))) % 256
       ELSE fill])

\* The loops of the decode table generators: byte j of value i comes from
\* position shuf_idx of the input when j < lens[i], else fill.
UnpackEntry(lens0, elem_len, entry_len, fill) ==
  Let(lens0, LAMBDA lens :
    [k \in 1..entry_len |->
       LET i == (k - 1) \div elem_len
           j == (k - 1) % elem_len
       IN IF j < lens[i + 1] THEN (ShufStart(lens, i) + j) % 256 ELSE fill])

\* arch::shuffle::encode_shuffle_entry::<ELEM_LEN, ENTRY_LEN>(tag, tag_len, fill_byte)
encode_shuffle_entry(elem_len, entry_len, tag, tag_len, fill_byte) ==
  PackEntry([i \in 1..(entry_len \div elem_len) |-> tag_len[VTag(tag, i - 1) + 1]],
              elem_len, entry_len, fill_byte)

\* arch::shuffle::decode_shuffle_entry::<ELEM_LEN, ENTRY_LEN>(tag, tag_len, fill_byte)
decode_shuffle_entry(elem_len, entry_len, tag, tag_len, fill_byte) ==
  UnpackEntry([i \in 1..(entry_len \div elem_len) |-> tag_len[VTag(tag, i - 1) + 1]],
              elem_len, entry_len, fill_byte)

\* arch::neon::tag_encode_shuffle_table32 / 64 (tag_len)[tag]: four values of
\* elem_len bytes, filled with 64.
tag_encode_shuffle_table(elem_len, tag_len, tag) ==
  PackEntry([i \in 1..4 |-> tag_len[VTag(tag, i - 1) + 1]], elem_len, elem_len * 4, 64)

\* arch::neon::tag_decode_shuffle_table32 / 64 (tag_len)[tag]
tag_decode_shuffle_table(elem_len, tag_len, tag) ==
  UnpackEntry([i \in 1..4 |-> tag_len[VTag(tag, i - 1) + 1]], elem_len, elem_len * 4, 64)

\* coder1248::ssse3::generate_encode_shuffle_table()[tag]: two values of
\* 1 << vtag bytes, filled with 128.
generate_encode_shuffle_table(tag) ==
  PackEntry([i \in 1..2 |-> Pow2(VTag(tag, i - 1))], 8, 16, 128)

\* coder1248::ssse3::generate_decode_shuffle_table()[tag]
generate_decode_shuffle_table(tag) ==
  UnpackEntry([i \in 1..2 |-> Pow2(VTag(tag, i - 1))], 8, 16, 128)

\* NIBBLE_LEN of coder1248/ssse3.rs, sse41.rs and avx2.rs: the data length of
\* the two values of a nibble tag.
NIBBLE_LEN == <<2, 3, 5, 9, 3, 4, 6, 10, 5, 6, 8, 12, 9, 10, 12, 16>>

(***************************************************************************)
(* SIMD group kernels.  Like the scalar kernel, an encode kernel returns   *)
(* the tag, the written count and the memory after its stores, a decode    *)
(* kernel the read count and the group (or the sum); `oob` reports a load  *)
(* or store that left the buffer.  A register group is kept as its bytes.  *)
(***************************************************************************)
\* A 16- or 32-byte store at output + off.
StoreVec(s, off, v) ==
  Let(v, LAMBDA x :
    [mem |-> WriteElem(s.mem, off, x), oob |-> s.oob \/ off + Len(x) > Len(s.mem)])

\* A load of n bytes at input + off leaves the buffer.
LoadOob(mem, off, n) == off + n > Len(mem)

\* `x as usize` for a 32-bit lane below 2^24; anything larger is reported as 2^24.
U32ToUsize(l) == IF l[4] # 0 THEN 16777216 ELSE l[1] + 256 * l[2] + 65536 * l[3]

\* vld1q_s32([0, 2, 4, 6].as_ptr())
TagShifts == <<0, 2, 4, 6>>

\* The tail of the NEON 32-bit encode kernels: the store of the shuffled
\* group, 16 bytes at output.
Neon32Store(c, mem, off, g, tag, nwritten) ==
  Let(tag_encode_shuffle_table(4, TAG_LEN(c), tag), LAMBDA shuf :
  Let(StoreVec([mem |-> mem, oob |-> FALSE], off, vqtbl1q_u8(g, shuf)), LAMBDA st :
    [mem |-> st.mem, tag |-> tag, written |-> nwritten, oob |-> st.oob]))

\* group1234::neon::RawGroupImpl::encode, on the register g
neon1234_encode(mem, off, g) ==
  Let(vqsubq_u32(vdupq_n_u32(<<3, 0, 0, 0>>), vshrq_n_u32(vclzq_u32(g), 3)), LAMBDA value_tags :
  Let(vaddvq_u32(vshlq_u32(value_tags, TagShifts))[1], LAMBDA tag :
  Let(U32ToUsize(vaddvq_u32(value_tags)) + 4, LAMBDA nwritten :
    Neon32Store("1234", mem, off, g, tag, nwritten))))

\* group0124::neon::RawGroupImpl::encode, on the register g
neon0124_encode(mem, off, g) ==
  Let(vsubq_u32(vdupq_n_u32(<<4, 0, 0, 0>>), vshrq_n_u32(vclzq_u32(g), 3)), LAMBDA clz_bytes :
  Let(vqtbl1q_u8(<<0, 1, 2, 3, 3, 0, 0, 0, 0, 0, 0, 0, 0, 0, 0, 0>>, clz_bytes), LAMBDA value_tags :
  Let(vaddvq_u32(vshlq_u32(value_tags, TagShifts))[1], LAMBDA tag :
  Let(vaddvq_u8(vqtbl1q_u8(<<0, 1, 2, 4, 0, 0, 0, 0, 0, 0, 0, 0, 0, 0, 0, 0>>,
      value_tags)), LAMBDA nwritten :
    Neon32Store("0124", mem, off, g, tag, nwritten)))))

\* The deltas of group{1234,0124}::neon::RawGroupImpl::encode_deltas:
\* vsubq_u32(group.0, vextq_u32(base.0, group.0, 3))
neon32_deltas(base, g) == vsubq_u32(g, vextq_u32(base, g, 3))

\* group{1234,0124}::neon::RawGroupImpl::decode: one 16-byte load at input,
\* shuffled by the decode table entry of the tag.
neon32_decode(c, mem, off, tag, junk) ==
  Let(ReadElem(mem, off, 16, junk), LAMBDA input :
  Let(tag_decode_shuffle_table(4, TAG_LEN(c), tag), LAMBDA shuf :
    [read  |-> data_len1(c, tag),
     group |-> vqtbl1q_u8(input, shuf),
     oob   |-> LoadOob(mem, off, 16)]))

\* arch::neon::sum_deltas32(base, deltas): two vector-extend-and-add steps
\* producing [a, a+b, a+b+c, a+b+c+d], then the base is added.
sum_deltas32(base, deltas) ==
  Let(vdupq_n_u32(<<0, 0, 0, 0>>), LAMBDA z :
  Let(vaddq_u32(deltas, vextq_u32(z, deltas, 3)), LAMBDA a_ab_bc_cd :
  Let(vaddq_u32(a_ab_bc_cd, vextq_u32(z, a_ab_bc_cd, 2)), LAMBDA a_ab_abc_abcd :
    vaddq_u32(base, a_ab_abc_abcd))))

\* group{1234,0124}::neon::RawGroupImpl::decode_deltas
neon32_decode_deltas(c, mem, off, tag, base, junk) ==
  Let(neon32_decode(c, mem, off, tag, junk), LAMBDA d :
    [read |-> d.read, group |-> sum_deltas32(vdupq_laneq_u32(base, 3), d.group),
     oob |-> d.oob])

\* group{1234,0124}::neon::RawGroupImpl::skip_deltas
neon32_skip_deltas(c, mem, off, tag, junk) ==
  Let(neon32_decode(c, mem, off, tag, junk), LAMBDA d :
    [read |-> d.read, sum |-> vaddvq_u32(d.group), oob |-> d.oob])

\* group1248::neon::RawGroupImpl::compute_tag
neon1248_compute_tag(g) ==
  Let(vqmovn_high_u64(vqmovn_u64(Lo128(g)), Hi128(g)), LAMBDA lo :
  Let(vcgtq_u64(Lo128(g), vdupq_n_u64(<<255, 255, 255, 255, 0, 0, 0, 0>>)), LAMBDA tag3_v0 :
  Let(vcgtq_u64(Hi128(g), vdupq_n_u64(<<255, 255, 255, 255, 0, 0, 0, 0>>)), LAMBDA tag3_v1 :
  Let(vcgtq_u32(lo, vdupq_n_u32(<<255, 255, 0, 0>>)), LAMBDA tag2 :
  Let(vcgtq_u32(lo, vdupq_n_u32(<<255, 0, 0, 0>>)), LAMBDA tag1 :
  Let(<<255, 0, 16, 32, 255, 4, 20, 40, 255, 8, 24, 48, 255, 12, 28, 56>>, LAMBDA shuf :
  Let(vqtbl4q_u8(tag1 \o tag2 \o tag3_v0 \o tag3_v1, shuf), LAMBDA tag_bytes :
  Let(vminq_u8(tag_bytes, vdupq_n_u8(1)), LAMBDA tag_quads :
  Let(vpaddlq_u8(tag_quads), LAMBDA tag_halves :
  Let(vpaddlq_u16(tag_halves), LAMBDA tgs :
    vaddvq_u32(vshlq_u32(tgs, TagShifts))[1]))))))))))

\* group1248::neon::RawGroupImpl::encode: two 16-byte stores, at output and
\* at output + 16.
neon1248_encode(mem, off, g) ==
  Let(neon1248_compute_tag(g), LAMBDA tag :
  Let(tag_encode_shuffle_table(8, TAG_LEN("1248"), tag), LAMBDA shuf :
  Let(StoreVec([mem |-> mem, oob |-> FALSE], off, vqtbl2q_u8(g, Lo128(shuf))), LAMBDA st1 :
  Let(StoreVec(st1, off + 16, vqtbl2q_u8(g, Hi128(shuf))), LAMBDA st2 :
    [mem |-> st2.mem, tag |-> tag, written |-> data_len1("1248", tag), oob |-> st2.oob]))))

\* The deltas of {group1248,coder1248}::neon::RawGroupImpl::encode_deltas
neon64_deltas(base, g) ==
  Let(vextq_u64(Hi128(base), Lo128(g), 1), LAMBDA b0 :
  Let(vextq_u64(Lo128(g), Hi128(g), 1), LAMBDA b1 :
    vsubq_u64(Lo128(g), b0) \o vsubq_u64(Hi128(g), b1)))

\* {group1248,coder1248}::neon::RawGroupImpl::decode: 16-byte loads at input
\* and at input + 16, two table lookups over the 32 bytes.
neon64_decode(mem, off, tag, junk) ==
  Let(tag_decode_shuffle_table(8, TAG_LEN("1248"), tag), LAMBDA shuf :
  Let(ReadElem(mem, off, 16, junk) \o ReadElem(mem, off + 16, 16, junk), LAMBDA tbl_bytes :
    [read  |-> data_len1("1248", tag),
     group |-> vqtbl2q_u8(tbl_bytes, Lo128(shuf)) \o vqtbl2q_u8(tbl_bytes, Hi128(shuf)),
     oob   |-> LoadOob(mem, off, 16) \/ LoadOob(mem, off + 16, 16)]))

\* group1248::neon::RawGroupImpl::decode_deltas after the decode, and
\* coder1248::neon::RawGroupImpl::sum_deltas with p = vdupq_laneq_u64(base.1, 1)
neon64_sum_deltas(base, group) ==
  Let(Lo128(group), LAMBDA a_b :
  Let(Hi128(group), LAMBDA c_d :
  Let(vdupq_n_u64(ElemZero(8)), LAMBDA z :
  Let(vextq_u64(z, a_b, 1), LAMBDA z_a :
  Let(vaddq_u64(z_a, a_b), LAMBDA a_ab :
  Let(vdupq_laneq_u64(Hi128(base), 1), LAMBDA p :
  Let(vaddq_u64(p, a_ab), LAMBDA pa_pab :
  Let(vextq_u64(a_b, c_d, 1), LAMBDA b_c :
  Let(vaddq_u64(b_c, c_d), LAMBDA bc_cd :
    pa_pab \o vaddq_u64(pa_pab, bc_cd))))))))))

\* {group1248,coder1248}::neon::RawGroupImpl::decode_deltas
neon64_decode_deltas(mem, off, tag, base, junk) ==
  Let(neon64_decode(mem, off, tag, junk), LAMBDA d :
    [read |-> d.read, group |-> neon64_sum_deltas(base, d.group), oob |-> d.oob])

\* {group1248,coder1248}::neon::RawGroupImpl::skip_deltas:
\* vpaddd_u64 (vaddvq_u64 in the coder) of vaddq_u64(group.0, group.1)
neon64_skip_deltas(mem, off, tag, junk) ==
  Let(neon64_decode(mem, off, tag, junk), LAMBDA d :
    [read |-> d.read, sum |-> vpaddd_u64(vaddq_u64(Lo128(d.group), Hi128(d.group))),
     oob |-> d.oob])

\* coder1248::neon::RawGroupImpl::compute_tagnc
neon1248_compute_tagnc(g) ==
  Let(vdupq_n_u64(<<255, 0, 0, 0, 0, 0, 0, 0>>), LAMBDA cmask :
  Let(vcgtq_u8(Lo128(g), cmask), LAMBDA c0 :
  Let(vcgtq_u8(Hi128(g), cmask), LAMBDA c1 :
  Let(vqmovn_high_u16(vqmovn_u16(c0), c1), LAMBDA n1 :
  Let(vminq_u16(n1, vdupq_n_u32(<<0, 255, 1, 0>>)), LAMBDA m1 :
  Let(vqmovn_u32(m1), LAMBDA n2 :
    vaddv_u8(vand_u8(n2, <<1, 2, 4, 8, 16, 32, 64, 128>>))))))))

\* coder1248::neon::RawGroupImpl::encode: one store when at most 16 bytes are
\* written, two otherwise.
coder1248_neon_encode(mem, off, g) ==
  Let(neon1248_compute_tagnc(g), LAMBDA tag :
  Let(data_len1("1248", tag), LAMBDA nwritten :
  Let(tag_encode_shuffle_table(8, TAG_LEN("1248"), tag), LAMBDA shuf :
  Let(StoreVec([mem |-> mem, oob |-> FALSE], off, vqtbl2q_u8(g, Lo128(shuf))), LAMBDA st1 :
  Let(IF nwritten <= 16 THEN st1
      ELSE StoreVec(st1, off + 16, vqtbl2q_u8(g, Hi128(shuf))), LAMBDA st2 :
    [mem |-> st2.mem, tag |-> tag, written |-> nwritten, oob |-> st2.oob])))))

\* The tail of the x86 32-bit encode kernels: one 16-byte store of the
\* group shuffled by ENCODE_TABLE[tag]; data_len(tag) is returned.
X86Store32(c, mem, off, g, tag) ==
  Let(StoreVec([mem |-> mem, oob |-> FALSE], off,
      mm_shuffle_epi8(g, encode_shuffle_entry(4, 16, tag, TAG_LEN(c), 128))), LAMBDA st :
    [mem |-> st.mem, tag |-> tag, written |-> data_len1(c, tag), oob |-> st.oob])

\* coder1234::ssse3::RawGroupImpl::encode
ssse3_1234_encode(mem, off, g) ==
  Let(mm_set1_epi8(1), LAMBDA mask_01 :
  Let(mm_set1_epi16(<<0, 127>>), LAMBDA mask_7f00 :
  Let(mm_min_epu8(mask_01, g), LAMBDA a :
  Let(mm_packus_epi16(a, a), LAMBDA b :
  Let(mm_min_epi16(b, mask_01), LAMBDA c :
  Let(mm_adds_epu16(c, mask_7f00), LAMBDA d :
  Let(mm_movemask_epi8(d) % 256, LAMBDA tag :
    X86Store32("1234", mem, off, g, tag))))))))

\* coder0124::sse41::RawGroupImpl::compute_tag
sse41_0124_compute_tag(g) ==
  Let(mm_min_epu8(g, mm_set1_epi8(1)), LAMBDA a :
  Let(mm_min_epi16(a, mm_set1_epi16(<<0, 1>>)), LAMBDA b :
  Let(mm_add_epi32(b, mm_set1_epi32(<<127, 127, 0, 0>>)), LAMBDA c :
  Let(mm_packus_epi32(c, c), LAMBDA d :
    mm_movemask_epi8(d) % 256))))

\* coder0124::sse41::RawGroupImpl::encode
sse41_0124_encode(mem, off, g) ==
  Let(sse41_0124_compute_tag(g), LAMBDA tag : X86Store32("0124", mem, off, g, tag))

\* The deltas of coder{1234::ssse3,0124::sse41}::RawGroupImpl::encode_deltas
x86_32_deltas(base, g) == mm_sub_epi32(g, mm_alignr_epi8(g, base, 12))

\* coder{1234::ssse3,0124::sse41}::RawGroupImpl::decode
x86_32_decode(c, mem, off, tag, junk) ==
  [read  |-> data_len1(c, tag),
   group |-> mm_shuffle_epi8(ReadElem(mem, off, 16, junk),
                             decode_shuffle_entry(4, 16, tag, TAG_LEN(c), 128)),
   oob   |-> LoadOob(mem, off, 16)]

\* coder{1234::ssse3,0124::sse41}::RawGroupImpl::decode_deltas
x86_32_decode_deltas(c, mem, off, tag, base, junk) ==
  Let(x86_32_decode(c, mem, off, tag, junk), LAMBDA d :
  Let(d.group, LAMBDA a_b_c_d :
  Let(mm_add_epi32(a_b_c_d, mm_bslli_si128(a_b_c_d, 4)), LAMBDA a_ab_bc_cd :
  Let(mm_add_epi32(a_ab_bc_cd, mm_bslli_si128(a_ab_bc_cd, 8)), LAMBDA a_ab_abc_abcd :
    [read  |-> d.read,
     group |-> mm_add_epi32(a_ab_abc_abcd, mm_shuffle_epi32(base, 255)),
     oob   |-> d.oob]))))

\* coder{1234::ssse3,0124::sse41}::RawGroupImpl::skip_deltas: the wrapping
\* fold of the four decoded lanes.
x86_32_skip_deltas(c, mem, off, tag, junk) ==
  Let(x86_32_decode(c, mem, off, tag, junk), LAMBDA d :
    [read |-> d.read, sum |-> FoldAdd(ElemZero(4), GroupOf(d.group, 4)), oob |-> d.oob])

\* The steps of compute_tag that coder1248's ssse3 and sse41 kernels share,
\* from the clamped halves m = (m0, m1) on.
X86Tag64(m0, m1) ==
  Let(mm_packus_epi16(m0, m1), LAMBDA n1 :
  Let(mm_min_epu16(n1, mm_set1_epi32(<<0, 1, 1, 0>>)), LAMBDA m1_ :
  Let(mm_add_epi32(m1_, mm_set1_epi32(<<0, 127, 0, 0>>)), LAMBDA m2 :
  Let(mm_packus_epi32(m2, m2), LAMBDA n2 :
    mm_movemask_epi8(n2) % 256))))

\* _mm_set1_epi64x(0x0101010101010100)
mmask == mm_set1_epi64x(<<0, 1, 1, 1, 1, 1, 1, 1>>)

\* coder1248::sse41::RawGroupImpl::compute_tag
sse41_1248_compute_tag(g) ==
  X86Tag64(mm_min_epu8(Lo128(g), mmask), mm_min_epu8(Hi128(g), mmask))

\* coder1248::ssse3::RawGroupImpl::compute_tag: the bytes are clamped with
\* the signed minimum.
ssse3_1248_compute_tag(g) ==
  X86Tag64(mm_min_epi8(Lo128(g), mmask), mm_min_epi8(Hi128(g), mmask))

\* coder1248::avx2::RawGroupImpl::compute_tag; `& 0xff` keeps the mask bits
\* of the low 8 bytes.
avx2_1248_compute_tag(g) ==
  Let(mm_min_epu8(g, mmask \o mmask), LAMBDA m :
  Let(mm256_packus_epi16(m, m), LAMBDA n1 :
  Let(mm_min_epu16(n1, Splat(<<0, 1, 1, 0>>, 8)), LAMBDA m1 :
  Let(mm_add_epi32(m1, Splat(<<0, 127, 0, 0>>, 8)), LAMBDA m2 :
  Let(mm256_permute4x64_epi64(m2, 8), LAMBDA m3 :
  Let(mm256_packus_epi32(m3, m3), LAMBDA n2 :
    mm_movemask_epi8(SubSeq(n2, 1, 8))))))))

\* nibble_tags(tag) and nibble_data_len / nibble_tag_lens of the x86 1248 kernels
nibble_tags(tag) == <<BitAnd(tag, 15), Shr(tag, 4)>>
nibble_data_len_mut(nt) == <<NIBBLE_LEN[nt[1] + 1] + 1, NIBBLE_LEN[nt[2] + 1]>>
nibble_data_len(nt) == <<NIBBLE_LEN[nt[1] + 1], NIBBLE_LEN[nt[2] + 1]>>

\* ENCODE_TABLE / DECODE_TABLE of coder1248/sse41.rs and avx2.rs
sse41_1248_ENCODE_TABLE(nibble) == encode_shuffle_entry(8, 16, nibble, TAG_LEN("1248"), 128)
sse41_1248_DECODE_TABLE(nibble) == decode_shuffle_entry(8, 16, nibble, TAG_LEN("1248"), 128)

\* ENCODE_TABLE[nibble] / DECODE_TABLE[nibble] as backend b declares it: ssse3
\* generates its own tables, sse41 and avx2 take them from arch::shuffle.
X86EncodeEntry(b, nibble) ==
  IF b = "ssse3" THEN generate_encode_shuffle_table(nibble)
                 ELSE sse41_1248_ENCODE_TABLE(nibble)
X86DecodeEntry(b, nibble) ==
  IF b = "ssse3" THEN generate_decode_shuffle_table(nibble)
                 ELSE sse41_1248_DECODE_TABLE(nibble)

\* The tail of coder1248::{ssse3,sse41,avx2}::RawGroupImpl::encode: the low
\* half stored at output, then the high half at output + nibble_data_len.0;
\* b names the kernel's ENCODE_TABLE.
X86Store64(b, mem, off, g, tag) ==
  Let(nibble_tags(tag), LAMBDA nt :
  Let(nibble_data_len(nt), LAMBDA nl :
  Let(StoreVec([mem |-> mem, oob |-> FALSE], off,
      mm_shuffle_epi8(Lo128(g), X86EncodeEntry(b, nt[1]))), LAMBDA st1 :
  Let(StoreVec(st1, off + nl[1], mm_shuffle_epi8(Hi128(g), X86EncodeEntry(b, nt[2]))), LAMBDA st2 :
    [mem |-> st2.mem, tag |-> tag, written |-> nl[1] + nl[2], oob |-> st2.oob]))))

\* coder1248::{sse41,ssse3,avx2}::RawGroupImpl::encode
sse41_1248_encode(mem, off, g) ==
  Let(sse41_1248_compute_tag(g), LAMBDA tag :
    X86Store64("sse41", mem, off, g, tag))
ssse3_1248_encode(mem, off, g) ==
  Let(ssse3_1248_compute_tag(g), LAMBDA tag :
    X86Store64("ssse3", mem, off, g, tag))
avx2_1248_encode(mem, off, g) ==
  Let(avx2_1248_compute_tag(g), LAMBDA tag :
    X86Store64("avx2", mem, off, g, tag))

\* The deltas of coder1248::sse41::RawGroupImpl::encode_deltas
sse41_1248_deltas(base, g) ==
  Let(mm_alignr_epi8(Lo128(g), Hi128(base), 8), LAMBDA delta_base0 :
  Let(mm_alignr_epi8(Hi128(g), Lo128(g), 8), LAMBDA delta_base1 :
    mm_sub_epi64(Lo128(g), delta_base0) \o mm_sub_epi64(Hi128(g), delta_base1)))

\* coder1248::{ssse3,sse41,avx2}::RawGroupImpl::decode: 16-byte loads at
\* input and at input + nibble_data_len.0; b names the kernel's
\* DECODE_TABLE.
x86_64_decode(b, mem, off, tag, junk) ==
  Let(nibble_tags(tag), LAMBDA nt :
  Let(nibble_data_len(nt), LAMBDA nl :
    [read  |-> nl[1] + nl[2],
     group |-> mm_shuffle_epi8(ReadElem(mem, off, 16, junk), X86DecodeEntry(b, nt[1]))
               \o mm_shuffle_epi8(ReadElem(mem, off + nl[1], 16, junk), X86DecodeEntry(b, nt[2])),
     oob   |-> LoadOob(mem, off, 16) \/ LoadOob(mem, off + nl[1], 16)]))

\* coder1248::sse41::RawGroupImpl::decode_deltas
sse41_1248_decode_deltas(mem, off, tag, base, junk) ==
  Let(mm_shuffle_epi32(Hi128(base), 238), LAMBDA delta_base :
  Let(x86_64_decode("sse41", mem, off, tag, junk), LAMBDA d :
  Let(Lo128(d.group), LAMBDA a_b :
  Let(Hi128(d.group), LAMBDA c_d :
  Let(mm_bslli_si128(a_b, 8), LAMBDA z_a :
  Let(mm_alignr_epi8(c_d, a_b, 8), LAMBDA b_c :
  Let(mm_add_epi64(z_a, a_b), LAMBDA a_ab :
  Let(mm_add_epi64(delta_base, a_ab), LAMBDA pa_pab :
  Let(mm_add_epi64(b_c, c_d), LAMBDA bc_cd :
    [read |-> d.read, group |-> pa_pab \o mm_add_epi64(pa_pab, bc_cd), oob |-> d.oob])))))))))

\* coder1248::sse41::RawGroupImpl::skip_deltas
sse41_1248_skip_deltas(mem, off, tag, junk) ==
  Let(x86_64_decode("sse41", mem, off, tag, junk), LAMBDA d :
  Let(mm_add_epi64(Lo128(d.group), Hi128(d.group)), LAMBDA ac_bd :
  Let(mm_add_epi64(mm_bsrli_si128(ac_bd, 8), ac_bd), LAMBDA abcd_bd :
    [read |-> d.read, sum |-> mm_cvtsi128_si64x(abcd_bd), oob |-> d.oob])))

(***************************************************************************)
(* The kernel harness: one kernel call of a SIMD backend next to the same  *)
(* call of the scalar kernel, on the test group of every tag: the groups   *)
(* the test suite's TagIter yields (tests.rs) and the group of tag 255.    *)
(* The buffers are exactly size_of::<Elem>() * 4 bytes long and the call   *)
(* is made at offset 0, so `oob` reports any access outside                *)
(* [ptr, ptr + size_of::<Elem>() * 4).                                     *)
(***************************************************************************)
\* The SIMD kernels of a coder, by the file that holds them:
\* group{1234,0124,1248}/neon.rs ("neon"), coder1248/neon.rs ("neon_coder"),
\* coder1234/ssse3.rs, coder0124/sse41.rs, coder1248/{ssse3,sse41,avx2}.rs.
Backends(c) ==
  CASE c = "1234" -> {"neon", "ssse3"}
    [] c = "0124" -> {"neon", "sse41"}
    [] c = "1248" -> {"neon", "neon_coder", "ssse3", "sse41", "avx2"}

KernOps == {"encode", "encode_deltas", "decode", "decode_deltas", "skip_deltas"}

\* The kernels whose body is todo!(): the call panics.
IsTodo(c, b, op) ==
  /\ c = "1248" /\ b \in {"ssse3", "avx2"}
  /\ op \in {"encode_deltas", "decode_deltas", "skip_deltas"}

\* RawGroupImpl::encode of backend b, on the loaded group.
SimdEncode(c, b, mem, off, group) ==
  Let(GroupBytes(group), LAMBDA g :
    CASE c = "1234" /\ b = "neon"       -> neon1234_encode(mem, off, g)
      [] c = "1234" /\ b = "ssse3"      -> ssse3_1234_encode(mem, off, g)
      [] c = "0124" /\ b = "neon"       -> neon0124_encode(mem, off, g)
      [] c = "0124" /\ b = "sse41"      -> sse41_0124_encode(mem, off, g)
      [] c = "1248" /\ b = "neon"       -> neon1248_encode(mem, off, g)
      [] c = "1248" /\ b = "neon_coder" -> coder1248_neon_encode(mem, off, g)
      [] c = "1248" /\ b = "ssse3"      -> ssse3_1248_encode(mem, off, g)
      [] c = "1248" /\ b = "sse41"      -> sse41_1248_encode(mem, off, g)
      [] c = "1248" /\ b = "avx2"       -> avx2_1248_encode(mem, off, g))

\* RawGroupImpl::encode_deltas of backend b: Self::encode of the deltas.
SimdEncodeDeltas(c, b, mem, off, base, group) ==
  Let(GroupBytes(base), LAMBDA bb :
  Let(GroupBytes(group), LAMBDA g :
  Let(ELEM_WIDTH(c), LAMBDA w :
  Let(CASE b = "neon" /\ w = 4             -> neon32_deltas(bb, g)
      [] b \in {"neon", "neon_coder"} /\ w = 8 -> neon64_deltas(bb, g)
      [] b \in {"ssse3", "sse41"} /\ w = 4     -> x86_32_deltas(bb, g)
      [] OTHER                                 -> sse41_1248_deltas(bb, g), LAMBDA d :
    SimdEncode(c, b, mem, off, GroupOf(d, w))))))

\* RawGroupImpl::decode of backend b; the group as store_unaligned lays it out.
SimdDecode(c, b, mem, off, tag, junk) ==
  Let(CASE b = "neon" /\ c # "1248"  -> neon32_decode(c, mem, off, tag, junk)
      [] b \in {"neon", "neon_coder"} -> neon64_decode(mem, off, tag, junk)
      [] c # "1248"                -> x86_32_decode(c, mem, off, tag, junk)
      [] b = "ssse3" -> x86_64_decode("ssse3", mem, off, tag, junk)
      [] OTHER       -> x86_64_decode("sse41", mem, off, tag, junk), LAMBDA d :
    [read |-> d.read, group |-> GroupOf(d.group, ELEM_WIDTH(c)), oob |-> d.oob])

\* RawGroupImpl::decode_deltas of backend b
SimdDecodeDeltas(c, b, mem, off, tag, base, junk) ==
  Let(GroupBytes(base), LAMBDA bb :
  Let(CASE b = "neon" /\ c # "1248" -> neon32_decode_deltas(c, mem, off, tag, bb, junk)
      [] b \in {"neon", "neon_coder"} -> neon64_decode_deltas(mem, off, tag, bb, junk)
      [] c # "1248" -> x86_32_decode_deltas(c, mem, off, tag, bb, junk)
      [] OTHER      -> sse41_1248_decode_deltas(mem, off, tag, bb, junk), LAMBDA d :
    [read |-> d.read, group |-> GroupOf(d.group, ELEM_WIDTH(c)), oob |-> d.oob]))

\* RawGroupImpl::skip_deltas of backend b
SimdSkipDeltas(c, b, mem, off, tag, junk) ==
  CASE b = "neon" /\ c # "1248"     -> neon32_skip_deltas(c, mem, off, tag, junk)
    [] b \in {"neon", "neon_coder"} -> neon64_skip_deltas(mem, off, tag, junk)
    [] c # "1248"                   -> x86_32_skip_deltas(c, mem, off, tag, junk)
    [] OTHER                        -> sse41_1248_skip_deltas(mem, off, tag, junk)

\* TagIter::byteval(nbytes)
byteval(c, nbytes) == [k \in 1..ELEM_WIDTH(c) |-> IF k <= nbytes THEN 255 ELSE 0]

\* TagIter::mask_patterns(patterns)
mask_patterns(c, patterns) == [i \in 1..4 |-> [k \in 1..ELEM_WIDTH(c) |-> patterns[i]]]

\* smol_mask::<TGroup>(): the smallest element of each tag byte length.
smol_mask(c) ==
  [k \in 1..ELEM_WIDTH(c) |->
     IF k = 1 \/ \E t \in 1..3 : TAG_LEN(c)[t] = k - 1 THEN 1 ELSE 0]

\* The masks of the test groups: the pattern of test_encode_decode, the
\* smol_mask of the delta tests, every byte set, and every byte but the
\* lowest set.
KernMasks(c) ==
  { mask_patterns(c, <<26, 27, 28, 29>>),
    [i \in 1..4 |-> smol_mask(c)],
    mask_patterns(c, <<255, 255, 255, 255>>),
    [i \in 1..4 |-> [k \in 1..ELEM_WIDTH(c) |-> IF k = 1 THEN 0 ELSE 255]] }

\* The group TagIter::next yields for a tag.
TagIterGroup(c, tag, masks) ==
  [i \in 1..4 |-> ElemAnd(byteval(c, TAG_LEN(c)[VTag(tag, i - 1) + 1]), masks[i])]

\* Elem::one()
ElemOne(c) == [k \in 1..ELEM_WIDTH(c) |-> IF k = 1 THEN 1 ELSE 0]

\* integrate_delta(base, delta), wrapping.
integrate_delta(base, delta) == PrefixSum(set1(base), delta)

\* let mut enc = [255u8; ..], of size_of::<Elem>() * 4 bytes.
KernBuffer(c) == [k \in 1..(ELEM_WIDTH(c) * 4) |-> 255]

\* One kernel call per behaviour: the coder, the backend, the operation and
\* the test group of a tag.
KernInit ==
  /\ coder \in Coders
  /\ enc_mode = "plain" /\ initial = ElemZero(ELEM_WIDTH(coder))
  /\ values = <<>> /\ tags = <<>> /\ data = <<>>
  /\ pc = "fn_call"
  /\ seek = 0
  /\ Idle
  /\ \E b \in Backends(coder), op \in KernOps, tag \in 0..255, masks \in KernMasks(coder) :
       fn = [op  |-> op,
             arg |-> [backend |-> b, tag |-> tag,
                      group |-> TagIterGroup(coder, tag, masks)],
             ret |-> <<>>]

\* test_encode_decode::<Scalar, SIMD> and ::<SIMD, Scalar>: the group encoded
\* by both kernels, each encoding decoded by the other kernel.
KernEncode ==
  /\ pc = "fn_call" /\ fn.op = "encode"
  /\ \E junk \in JunkBytes, enc \in {KernBuffer(coder)} :
     \E es \in {ScalarEncode(coder, enc, 0, fn.arg.group)},
        ev \in {SimdEncode(coder, fn.arg.backend, enc, 0, fn.arg.group)} :
       fn' = [fn EXCEPT !.ret =
                [panic |-> FALSE, scalar |-> es, simd |-> ev,
                 dec_simd   |-> SimdDecode(coder, fn.arg.backend, es.mem, 0, es.tag, junk),
                 dec_scalar |-> ScalarDecode(coder, ev.mem, 0, ev.tag, junk)]]
  /\ pc' = "fn_done"
  /\ UNCHANGED fnRest

\* test_encode_decode_deltas, encoding side: the integrated group encoded as
\* deltas from set1(one) by both kernels.
KernEncodeDeltas ==
  /\ pc = "fn_call" /\ fn.op = "encode_deltas"
  /\ \E enc \in {KernBuffer(coder)}, base \in {set1(ElemOne(coder))},
        integ \in {integrate_delta(ElemOne(coder), fn.arg.group)} :
     \E es \in {ScalarEncodeDeltas(coder, enc, 0, base, integ)} :
       fn' = [fn EXCEPT !.ret =
                IF IsTodo(coder, fn.arg.backend, "encode_deltas")
                THEN [panic |-> TRUE, scalar |-> es]
                ELSE [panic |-> FALSE, scalar |-> es,
                      simd |-> SimdEncodeDeltas(coder, fn.arg.backend, enc, 0, base, integ)]]
  /\ pc' = "fn_done"
  /\ UNCHANGED fnRest

\* The encoding the decoding kernels are run on: the scalar encoding of the
\* test group.
KernEncoded == ScalarEncode(coder, KernBuffer(coder), 0, fn.arg.group)

\* test_encode_decode, decoding side: both kernels on the same encoding.
KernDecode ==
  /\ pc = "fn_call" /\ fn.op = "decode"
  /\ \E junk \in JunkBytes, e \in {KernEncoded} :
       fn' = [fn EXCEPT !.ret =
                [panic |-> FALSE,
                 scalar |-> ScalarDecode(coder, e.mem, 0, e.tag, junk),
                 simd   |-> SimdDecode(coder, fn.arg.backend, e.mem, 0, e.tag, junk)]]
  /\ pc' = "fn_done"
  /\ UNCHANGED fnRest

\* test_encode_decode_deltas, decoding side, with base set1(one).
KernDecodeDeltas ==
  /\ pc = "fn_call" /\ fn.op = "decode_deltas"
  /\ \E junk \in JunkBytes, e \in {KernEncoded}, base \in {set1(ElemOne(coder))} :
     \E ds \in {ScalarDecodeDeltas(coder, e.mem, 0, e.tag, base, junk)} :
       fn' = [fn EXCEPT !.ret =
                IF IsTodo(coder, fn.arg.backend, "decode_deltas")
                THEN [panic |-> TRUE, scalar |-> ds]
                ELSE [panic |-> FALSE, scalar |-> ds,
                      simd |-> SimdDecodeDeltas(coder, fn.arg.backend, e.mem, 0, e.tag,
                                                base, junk)]]
  /\ pc' = "fn_done"
  /\ UNCHANGED fnRest

\* test_skip_deltas, skipping side.
KernSkipDeltas ==
  /\ pc = "fn_call" /\ fn.op = "skip_deltas"
  /\ \E junk \in JunkBytes, e \in {KernEncoded} :
     \E ss \in {ScalarSkipDeltas(coder, e.mem, 0, e.tag, junk)} :
       fn' = [fn EXCEPT !.ret =
                IF IsTodo(coder, fn.arg.backend, "skip_deltas")
                THEN [panic |-> TRUE, scalar |-> ss]
                ELSE [panic |-> FALSE, scalar |-> ss,
                      simd |-> SimdSkipDeltas(coder, fn.arg.backend, e.mem, 0, e.tag, junk)]]
  /\ pc' = "fn_done"
  /\ UNCHANGED fnRest

KernNext ==
  \/ KernEncode
  \/ KernEncodeDeltas
  \/ KernDecode
  \/ KernDecodeDeltas
  \/ KernSkipDeltas

SpecKern == KernInit /\ [][KernNext]_vars

\* A kernel call has returned (or panicked).
KernDone == pc = "fn_done" /\ fn.op \in KernOps

\* The first `written` bytes an encode kernel left in the buffer.
Encoded(r) == SubSeq(r.mem, 1, r.written)

\* The SIMD kernel returned what the scalar kernel returned.
KernAgree ==
  /\ ~fn.ret.panic
  /\ fn.op \in {"encode", "encode_deltas"} =>
       /\ fn.ret.simd.tag = fn.ret.scalar.tag
       /\ fn.ret.simd.written = fn.ret.scalar.written
       /\ Encoded(fn.ret.simd) = Encoded(fn.ret.scalar)
  /\ fn.op = "encode" =>
       /\ fn.ret.dec_simd.group = fn.arg.group
       /\ fn.ret.dec_scalar.group = fn.arg.group
  /\ fn.op \in {"decode", "decode_deltas"} =>
       /\ fn.ret.simd.read = fn.ret.scalar.read
       /\ fn.ret.simd.group = fn.ret.scalar.group
  /\ fn.op = "skip_deltas" =>
       /\ fn.ret.simd.read = fn.ret.scalar.read
       /\ fn.ret.simd.sum = fn.ret.scalar.sum

\* C19: for every tag and every group, each SIMD kernel returns the same tag
\* byte, written length and first `written` data bytes as the scalar kernel
\* for encode and encode_deltas, the same (read, group) or (read, sum) for
\* decode, decode_deltas and skip_deltas, and a group encoded by either
\* kernel decodes to the original group with the other.
C19_Original == KernDone => KernAgree

\* Every kernel but the unfinished ones of the coder1248 drafts (the todo!()
\* bodies of ssse3.rs and avx2.rs, and the encode of ssse3.rs, whose
\* compute_tag clamps with a signed minimum) agrees with the scalar kernel.
C19_FinishedKernelsAgree ==
  (/\ KernDone
   /\ ~IsTodo(coder, fn.arg.backend, fn.op)
   /\ ~(coder = "1248" /\ fn.arg.backend = "ssse3" /\ fn.op = "encode")) => KernAgree

\* C20: a single-group encode or encode_deltas writes only inside
\* [out, out + size_of::<Elem>() * 4) and a single-group decode,
\* decode_deltas or skip_deltas reads only inside
\* [in, in + size_of::<Elem>() * 4), for the scalar kernel and every backend.
C20_KernelOvershoot ==
  KernDone =>
    /\ ~fn.ret.scalar.oob
    /\ ~fn.ret.panic => ~fn.ret.simd.oob
    /\ fn.op = "encode" => ~fn.ret.dec_simd.oob /\ ~fn.ret.dec_scalar.oob

\* A 1248 x86 encode whose second store starts at the sixteenth byte and
\* ends with the buffer, and a scalar encode whose last element does.
C20_Witness ==
  /\ KernDone /\ fn.op = "encode" /\ coder = "1248" /\ fn.arg.backend = "sse41"
  /\ fn.ret.simd.tag = 255 /\ fn.ret.simd.written = 32
  /\ fn.ret.simd.mem = GroupBytes(fn.arg.group)
  /\ fn.ret.simd.mem # KernBuffer(coder)
  /\ ~fn.ret.simd.oob /\ ~fn.ret.scalar.oob

(***************************************************************************)
(* Properties of the steps of decode_to_sink and encode_to_sink.           *)
(***************************************************************************)
\* A decode(tags, data, out) call on nine tags of a plain stream, with a data
\* slice at least as long as the tags call for.
NineTagDecode ==
  /\ enc_mode = "plain" /\ dsink = "std" /\ dstatus = "run"
  /\ Len(dtags) = 9 /\ Len(ddata) >= ret_len

\* The bytes the batch of tags 0..8 must find in data: the data length of the
\* eight groups and the overshoot of the last one.
BatchNeed == data_len8(coder, SubSeq(dtags, 1, 8)) + (WidthOf(coder) - TAG_LEN(coder)[1]) * 4

\* C21 as stated: with N = 36 (nine tags) and data.len() >= data_len(tags),
\* decode makes one eight-group batch call for the first eight tags, then one
\* single-group call for tag 8, and the decoded output equals the input.
C21_Original ==
  [][NineTagDecode =>
       /\ (pc = "batch" /\ tag_index = 0) => (pc' = "batch" /\ tag_index' = 8)
       /\ (tag_index = 8 /\ tag_index' # 8) => tag_index' = 9
       /\ pc' = "ret" => (dstatus' = "ok" /\ out' = values)]_vars

\* C21, amended. With N = 36 and data.len() >= data_len(tags) the decoded
\* output equals the input on every path; the driver makes the eight-group
\* batch call exactly when data.len() >= data_len8(tags[0..8]) +
\* (W - TAG_LEN[0]) * 4 (otherwise, e.g. for data[..n] of a stream whose last
\* group is short, all nine groups go through single-group calls); after a
\* batch call there is no second one, and tag 8 is decoded by one single-group
\* call, from data or from the scratch buffer.
C21_BatchedTail ==
  [][NineTagDecode =>
       /\ (pc = "batch" /\ tag_index = 0) =>
            ((pc' = "batch" /\ tag_index' = 8) <=> Len(ddata) >= BatchNeed)
       /\ (pc = "batch" /\ tag_index # 0) => (tag_index = 8 /\ pc' = "single")
       /\ (tag_index = 8 /\ tag_index' # 8) =>
            (tag_index' = 9 /\ pc \in {"single", "scratch"})
       /\ pc' = "ret" => (dstatus' = "ok" /\ out' = values /\ tag_index' = 9)]_vars

\* The batch call of a nine-tag decode has returned, on data[..n]: eight
\* groups are decoded and tag 8 is left.
C21_Witness ==
  /\ NineTagDecode /\ ExactSlice /\ pc = "batch" /\ tag_index = 8 /\ read > 0
  /\ SubSeq(out, 1, 32) = SubSeq(values, 1, 32)
  /\ out[33] = ElemZero(W) /\ values[33] # ElemZero(W)

\* A kernel call of encode_to_sink, of the batch loop, of the single-group
\* loop and of the scratch loop: the step that hands a group (or eight) to the
\* kernel.
EncodeCallStep == pc = "encode_loop" /\ enc_g' = enc_g + 1
BatchCallStep == pc = "batch" /\ tag_index' = tag_index + 8
SingleCallStep == pc = "single" /\ tag_index' = tag_index + 1
ScratchCallStep == pc = "scratch" /\ tag_index' = tag_index + 1

\* C22. Kernel headroom: every kernel call of a driver call that passed its
\* entry checks has room: encode at written + W*4 <= data.len(); a batch at
\* read + data_len8(tag8) + (W - TAG_LEN[0])*4 <= data.len(); a single group
\* from data at read + W*4 <= data.len(); the scratch buffer is 64 bytes, holds
\* at most W*4 - 1 bytes of data followed by zeros, and is read at
\* bufr < W*4, bufr + W*4 <= 64; no kernel access leaves its buffer.
C22_KernelHeadroom ==
  [][/\ EncodeCallStep => written + WidthOf(coder) * 4 <= Len(data)
     /\ BatchCallStep =>
          read + data_len8(coder, tag_chunk) + (WidthOf(coder) - TAG_LEN(coder)[1]) * 4
            <= Len(ddata)
     /\ SingleCallStep => read + WidthOf(coder) * 4 <= Len(ddata)
     /\ (pc = "tail" /\ pc' = "scratch") =>
          /\ Len(ddata) - read <= WidthOf(coder) * 4 - 1
          /\ Len(buf') = 64
          /\ \A k \in 1..64 :
               buf'[k] = IF k <= Len(ddata) - read THEN ddata[read + k] ELSE 0
     /\ ScratchCallStep => (bufr < WidthOf(coder) * 4 /\ bufr + WidthOf(coder) * 4 <= 64)
     /\ ~oob']_vars

\* A 1248 decode in its scratch loop, past its first call there, after a
\* batch of eight: the buffer holds fewer than 32 data bytes.
C22_Witness ==
  /\ pc = "scratch" /\ coder = "1248" /\ tag_index = 9 /\ Len(dtags) = 9
  /\ bufr > 0 /\ read > 64 /\ Len(ddata) - read < 32 /\ Len(ddata) - read > 0
  /\ Len(buf) = 64 /\ ~oob

(***************************************************************************)
(* The decoded stream as a function of the tags and of the first           *)
(* data_len(tags) bytes of data alone.                                     *)
(***************************************************************************)
\* The encoded length of field f (0-based, four per tag byte) of tgs.
FieldLen(c, tgs, f) ==
  TAG_LEN(c)[((tgs[(f \div 4) + 1] \div Pow2(2 * (f % 4))) % 4) + 1]

\* The offset of field f in the data stream.
RECURSIVE FieldOff(_, _, _)
FieldOff(c, tgs, f) ==
  IF f = 0 THEN 0 ELSE FieldOff(c, tgs, f - 1) + FieldLen(c, tgs, f - 1)

\* The values of the stream: field f is its FieldLen bytes of prefix,
\* little-endian, zero-extended to the element width.
PrefixValues(c, tgs, prefix) ==
  [j \in 1..(4 * Len(tgs)) |->
     [k \in 1..ELEM_WIDTH(c) |->
        IF k <= FieldLen(c, tgs, j - 1) THEN prefix[FieldOff(c, tgs, j - 1) + k] ELSE 0]]

GroupAt(vals, g) == SubSeq(vals, 4 * g + 1, 4 * g + 4)

\* The base the sink holds before group g: four copies of initial before
\* group 0, otherwise group g - 1 of vals.
BaseBefore(vals, g) == IF g = 0 THEN set1(initial) ELSE GroupAt(vals, g - 1)

\* C25. Delta base state: while decode_deltas runs, whether its next call is
\* a batch, a single group from data or a single group from the scratch
\* buffer, the base the sink holds is four copies of initial before group 0
\* and otherwise the absolute values written for the group before (after a
\* batch: its eighth group), and each group written, the groups inside a
\* batch included, is the prefix sum of its deltas from the group before; in
\* encode_deltas the base for group g is the input group g - 1, or four copies
\* of initial for g = 0.
C25_DeltaBase ==
  /\ (dsink = "delta" /\ dstatus = "run" /\ 4 * tag_index <= Len(out)) =>
       /\ dbase = BaseBefore(out, tag_index)
       /\ res["std"].status = "ok" =>
            \A g \in 0..(tag_index - 1) :
              GroupAt(out, g) = PrefixSum(BaseBefore(out, g), GroupAt(res["std"].out, g))
  /\ (enc_mode = "delta" /\ pc = "encode_loop") => enc_base = BaseBefore(values, enc_g)

\* decode_deltas between its batch of eight and the single-group call for
\* tag 8: the base is the batch's eighth group, not the initial value.
C25_Witness ==
  /\ enc_mode = "delta" /\ dsink = "delta" /\ dstatus = "run" /\ pc = "single"
  /\ Len(dtags) = 9 /\ tag_index = 8 /\ Len(ddata) = Len(data)
  /\ dbase = GroupAt(out, 7) /\ dbase # set1(initial)
  /\ GroupAt(out, 7) = GroupAt(values, 7)

\* The order of the phases of one decode_to_sink call.
PhaseRank(p) ==
  CASE p = "batch" -> 1 [] p = "single" -> 2 [] p = "tail" -> 3
    [] p = "scratch" -> 4 [] p = "ret" -> 5 [] OTHER -> 6

\* One step of a decode_to_sink call: tag_index only moves
\* forward, by the eight tags of a batch call or the one tag of a
\* single-group call, so that every tag is handled once and in index order;
\* the phases follow one another as batch*, single*, scratch* (no batch call
\* after the batch loop was left, no call on data once the scratch loop
\* started: there read stands still and bufr advances); the scratch loop
\* starts only with fewer than W*4 bytes of data left; read never decreases;
\* a call that returns normally has tag_index = tags.len().
DriverStep ==
  pc \in {"batch", "single", "tail", "scratch"} =>
       /\ tag_index' \in {tag_index, tag_index + 1, tag_index + 8}
       /\ tag_index' = tag_index + 8 => (pc = "batch" /\ pc' = "batch")
       /\ tag_index' = tag_index + 1 => (pc \in {"single", "scratch"} /\ pc' = pc)
       /\ tag_index' <= Len(dtags)
       /\ pc' # pc => PhaseRank(pc') > PhaseRank(pc)
       /\ read' >= read
       /\ (pc = "scratch" /\ pc' = "scratch") => (read' = read /\ bufr' >= bufr)
       /\ pc' = "scratch" => Len(ddata) - read' < WidthOf(coder) * 4
       /\ (pc' = "ret" /\ dstatus' = "ok") => (tag_index' = Len(dtags))

\* C26. Driver ordering: every step taken inside a decode_to_sink call is a
\* DriverStep: tags are handled once each in increasing index order, the
\* kernel calls form the sequence batch* single* scratch*, the scratch loop
\* starts only with fewer than W*4 data bytes left, read never decreases and
\* a normal return has tag_index = tags.len().
C26_DriverOrdering == [][DriverStep]_vars

\* A call that went through the three loops: ten tags, the batch headroom
\* test passed, tag 8 was decoded from data, and tag 9 is left for the
\* scratch buffer.
C26_Witness ==
  /\ pc = "scratch" /\ coder # "0124" /\ Len(dtags) = 10 /\ tag_index = 9 /\ bufr = 0
  /\ Len(ddata) >= max_read(coder, SubSeq(dtags, 1, 8))
  /\ read = data_len(coder, SubSeq(dtags, 1, 9))
  /\ Len(ddata) - read < WidthOf(coder) * 4

(***************************************************************************)
(* The eight-group kernels of group1234/neon.rs and group0124/neon.rs,     *)
(* which compute every group's offset from the tag word before decoding.   *)
(***************************************************************************)
\* w << k on a u64, for 0 <= k < 64.
U64Shl(w, k) ==
  LET q == k \div 8
      r == k % 8
      byte(j) == IF j >= 1 THEN w[j] ELSE 0
  IN [j \in 1..8 |->
        (byte(j - q) * Pow2(r) + Shr(byte(j - q - 1), 8 - r)) % 256]

\* The sums of the four two-bit fields of every byte of tag8:
\* ((tag8 >> 2) & 0x33..) + (tag8 & 0x33..), then the same by nibbles.
tag8_field_sums(tag8) ==
  Let(wrapping_add(U64And(U64Shr(tag8, 2), U64Splat(51)), U64And(tag8, U64Splat(51))), LAMBDA s4 :
    wrapping_add(U64And(U64Shr(s4, 4), U64Splat(15)), U64And(s4, U64Splat(15))))

\* The tail of both tag8_offsets: the running sums of the bytes of lengths8,
\* shifted up by one byte, and the top byte of the running sums.
tag8_running(lengths8) ==
  Let(wrapping_add(lengths8, U64Shl(lengths8, 8)), LAMBDA o1 :
  Let(wrapping_add(o1, U64Shl(o1, 16)), LAMBDA o2 :
  Let(wrapping_add(o2, U64Shl(o2, 32)), LAMBDA o3 :
    <<U64Shl(o3, 8), U64ToUsize(U64Shr(o3, 56))>>)))

\* A variant of group1234::neon::tag8_offsets that forgets the 4 added to
\* each byte.
neon1234_tag8_offsets_mut(tag8) == tag8_running(tag8_field_sums(tag8))

\* group1234::neon::tag8_offsets
neon1234_tag8_offsets(tag8) ==
  tag8_running(wrapping_add(tag8_field_sums(tag8), U64Splat(4)))

\* group0124::neon::tag8_offsets: length4s counts the fields equal to 3.
neon0124_tag8_offsets(tag8) ==
  Let(U64And(U64And(tag8, U64Shr(tag8, 1)), U64Splat(85)), LAMBDA m :
  Let(wrapping_add(U64And(U64Shr(m, 2), U64Splat(51)), U64And(m, U64Splat(51))), LAMBDA m4 :
  Let(wrapping_add(U64And(U64Shr(m4, 4), U64Splat(15)), U64And(m4, U64Splat(15))), LAMBDA length4s :
    tag8_running(wrapping_add(tag8_field_sums(tag8), length4s)))))

\* tag8_offsets of the NEON kernel of coder c ("1234" or "0124").
neon_tag8_offsets(c, tag8) ==
  IF c = "1234" THEN neon1234_tag8_offsets(tag8) ELSE neon0124_tag8_offsets(tag8)

\* The u32 of an integer below 2^31, as its little-endian bytes.
U32Of(n) == <<n % 256, (n \div 256) % 256, (n \div 65536) % 256, (n \div 16777216) % 256>>

\* Registers of eight u16 lanes are sequences of eight integers below 2^16.
vextq_u16(a, b, n) == SubSeq(a \o b, n + 1, n + 8)
vaddq_u16(a, b) == [j \in 1..8 |-> (a[j] + b[j]) % 65536]
vaddlvq_u16(a) == U32Of(SumSeq(a))
\* vmovl_u16(vget_low_u16(a)) and vmovl_high_u16(a), as registers of four u32.
vmovl_u16_low(a) == U32Of(a[1]) \o U32Of(a[2]) \o U32Of(a[3]) \o U32Of(a[4])
vmovl_high_u16(a) == U32Of(a[5]) \o U32Of(a[6]) \o U32Of(a[7]) \o U32Of(a[8])

\* a + b on u32 overflows: the sum is below a.
U32AddOverflows(a, b) == ~ElemLeq(a, wrapping_add(a, b))

\* Eight registers stored with store_unaligned / vst1q_u32 at
\* output + i * 4, i = 0..7 (output = vals + oidx).
Store8Regs(vals, oidx, regs) ==
  Let([i \in 1..8 |-> GroupOf(regs[i], 4)], LAMBDA gs :
    [k \in 1..Len(vals) |->
       IF oidx < k /\ k <= oidx + 32
       THEN gs[((k - oidx - 1) \div 4) + 1][((k - oidx - 1) % 4) + 1]
       ELSE vals[k]])

\* The eight Self::decode calls of the NEON eight-group kernels, each at
\* input + the byte of the offsets word: the loaded and shuffled registers.
Neon8Decodes(c, mem, off, tag8, offsets, junk) ==
  << neon32_decode(c, mem, off + Tag8Byte(offsets, 0), Tag8Byte(tag8, 0), junk),
     neon32_decode(c, mem, off + Tag8Byte(offsets, 1), Tag8Byte(tag8, 1), junk),
     neon32_decode(c, mem, off + Tag8Byte(offsets, 2), Tag8Byte(tag8, 2), junk),
     neon32_decode(c, mem, off + Tag8Byte(offsets, 3), Tag8Byte(tag8, 3), junk),
     neon32_decode(c, mem, off + Tag8Byte(offsets, 4), Tag8Byte(tag8, 4), junk),
     neon32_decode(c, mem, off + Tag8Byte(offsets, 5), Tag8Byte(tag8, 5), junk),
     neon32_decode(c, mem, off + Tag8Byte(offsets, 6), Tag8Byte(tag8, 6), junk),
     neon32_decode(c, mem, off + Tag8Byte(offsets, 7), Tag8Byte(tag8, 7), junk) >>

\* Some of the eight loads left the input.
Neon8Oob(ds) == \E i \in 1..8 : ds[i].oob

\* group0124::neon::RawGroupImpl::decode8, and group1234's for tag8 # 0:
\* the offsets and data_len from tag8_offsets, then eight decodes and stores.
neon32_decode8(c, mem, off, tag8, vals, oidx, junk) ==
  Let(neon_tag8_offsets(c, tag8), LAMBDA to :
  Let(Neon8Decodes(c, mem, off, tag8, to[1], junk), LAMBDA ds :
    [panic |-> FALSE,
     read  |-> to[2],
     vals  |-> Store8Regs(vals, oidx, [i \in 1..8 |-> ds[i].group]),
     group |-> GroupOf(ds[8].group, 4),
     oob   |-> Neon8Oob(ds) \/ oidx + 32 > Len(vals)]))

\* group1234::neon::RawGroupImpl::decode8: for tag8 == 0 two 16-byte loads,
\* each interleaved with three zero vectors by vst4q_u8 at output + i * 16.
neon1234_decode8(mem, off, tag8, vals, oidx, junk) ==
  IF tag8 = U64Splat(0)
  THEN Let(ReadElem(mem, off, 32, junk), LAMBDA g :
         [panic |-> FALSE,
          read  |-> 32,
          vals  |-> [k \in 1..Len(vals) |->
                       IF oidx < k /\ k <= oidx + 32 THEN <<g[k - oidx], 0, 0, 0>> ELSE vals[k]],
          group |-> [j \in 1..4 |-> <<g[28 + j], 0, 0, 0>>],
          oob   |-> LoadOob(mem, off, 16) \/ LoadOob(mem, off + 16, 16)
                    \/ oidx + 32 > Len(vals)])
  ELSE neon32_decode8("1234", mem, off, tag8, vals, oidx, junk)

\* bases[0..8] of the NEON decode_deltas8: bases[0] is lane 3 of base,
\* bases[i + 1] = bases[i].wrapping_add(vaddvq_u32(deltas[i])).
Neon8Bases(base, ds) ==
  Let(Lane(base, 4, 3), LAMBDA b0 :
  Let(wrapping_add(b0, vaddvq_u32(ds[1].group)), LAMBDA b1 :
  Let(wrapping_add(b1, vaddvq_u32(ds[2].group)), LAMBDA b2 :
  Let(wrapping_add(b2, vaddvq_u32(ds[3].group)), LAMBDA b3 :
  Let(wrapping_add(b3, vaddvq_u32(ds[4].group)), LAMBDA b4 :
  Let(wrapping_add(b4, vaddvq_u32(ds[5].group)), LAMBDA b5 :
  Let(wrapping_add(b5, vaddvq_u32(ds[6].group)), LAMBDA b6 :
  Let(wrapping_add(b6, vaddvq_u32(ds[7].group)), LAMBDA b7 :
    <<b0, b1, b2, b3, b4, b5, b6, b7>>))))))))

\* group0124::neon::RawGroupImpl::decode_deltas8, and group1234's for
\* tag8 # 0: the first decode at input, the others at input + offsets[i];
\* base is the register of the previous group.
neon32_decode_deltas8(c, mem, off, tag8, base, vals, oidx, junk) ==
  Let(neon_tag8_offsets(c, tag8), LAMBDA to :
  Let(Neon8Decodes(c, mem, off, tag8, [to[1] EXCEPT ![1] = 0], junk), LAMBDA ds :
  Let(Neon8Bases(base, ds), LAMBDA bases :
  Let([i \in 1..8 |-> sum_deltas32(vdupq_n_u32(bases[i]), ds[i].group)], LAMBDA group_data :
    [panic |-> FALSE,
     read  |-> to[2],
     vals  |-> Store8Regs(vals, oidx, group_data),
     group |-> GroupOf(group_data[8], 4),
     oob   |-> Neon8Oob(ds) \/ oidx + 32 > Len(vals)]))))

\* Iteration i of the tag8 == 0 loop of group1234's decode_deltas8: the
\* running sums of eight one-byte deltas on top of bases[i], as the two
\* registers stored at output + i * 8 and output + i * 8 + 4.
Neon1ByteStep(p, d) ==
  Let(vaddq_u16(d, vextq_u16(<<0, 0, 0, 0, 0, 0, 0, 0>>, d, 7)), LAMBDA a_ab_bc :
  Let(vaddq_u16(a_ab_bc, vextq_u16(<<0, 0, 0, 0, 0, 0, 0, 0>>, a_ab_bc, 6)), LAMBDA a_ab_abc :
  Let(vaddq_u32(p, vmovl_u16_low(a_ab_abc)), LAMBDA pa_pab_pabc_pabcd :
    <<pa_pab_pabc_pabcd, vaddq_u32(pa_pab_pabc_pabcd, vmovl_high_u16(a_ab_abc))>>)))

\* group1234::neon::RawGroupImpl::decode_deltas8.  For tag8 == 0 the bases
\* of the four pairs of groups are computed with `+` on u32, which panics on
\* overflow in a build with overflow checks and wraps in one without:
\* overflow_checks names the build.
neon1234_decode_deltas8(mem, off, tag8, base, vals, oidx, junk, overflow_checks) ==
  IF tag8 = U64Splat(0)
  THEN Let([i \in 1..4 |-> ReadElem(mem, off + 8 * (i - 1), 8, junk)], LAMBDA deltas :
       Let(Lane(base, 4, 3), LAMBDA b0 :
       Let(wrapping_add(b0, vaddlvq_u16(deltas[1])), LAMBDA b1 :
       Let(wrapping_add(b1, vaddlvq_u16(deltas[2])), LAMBDA b2 :
       Let(wrapping_add(b2, vaddlvq_u16(deltas[3])), LAMBDA b3 :
         IF overflow_checks /\ (\/ U32AddOverflows(b0, vaddlvq_u16(deltas[1]))
                                \/ U32AddOverflows(b1, vaddlvq_u16(deltas[2]))
                                \/ U32AddOverflows(b2, vaddlvq_u16(deltas[3])))
         THEN [panic |-> TRUE, read |-> 0, vals |-> vals, group |-> GroupOf(base, 4),
               oob |-> \E i \in 0..3 : LoadOob(mem, off + 8 * i, 8)]
         ELSE Let(<<Neon1ByteStep(vdupq_n_u32(b0), deltas[1]),
                    Neon1ByteStep(vdupq_n_u32(b1), deltas[2]),
                    Neon1ByteStep(vdupq_n_u32(b2), deltas[3]),
                    Neon1ByteStep(vdupq_n_u32(b3), deltas[4])>>, LAMBDA r :
                [panic |-> FALSE,
                 read  |-> 32,
                 vals  |-> Store8Regs(vals, oidx,
                             <<r[1][1], r[1][2], r[2][1], r[2][2],
                               r[3][1], r[3][2], r[4][1], r[4][2]>>),
                 group |-> GroupOf(r[4][2], 4),
                 oob   |-> (\E i \in 0..3 : LoadOob(mem, off + 8 * i, 8))
                           \/ oidx + 32 > Len(vals)]))))))
  ELSE neon32_decode_deltas8("1234", mem, off, tag8, base, vals, oidx, junk)

\* group1234::neon::RawGroupImpl::skip_deltas8: for tag8 == 0 the 32 bytes
\* loaded by vld2q_u8 are summed; otherwise eight decodes at the offsets of
\* tag8_offsets, their lanes summed with wrapping_add.
neon1234_skip_deltas8(mem, off, tag8, junk) ==
  IF tag8 = U64Splat(0)
  THEN [read |-> 32, sum |-> U32Of(SumSeq(ReadElem(mem, off, 32, junk))),
        oob |-> LoadOob(mem, off, 32)]
  ELSE Let(neon1234_tag8_offsets(tag8), LAMBDA to :
       Let(Neon8Decodes("1234", mem, off, tag8, to[1], junk), LAMBDA ds :
         [read |-> to[2],
          sum  |-> FoldAdd(ElemZero(4), [i \in 1..8 |-> vaddvq_u32(ds[i].group)]),
          oob  |-> Neon8Oob(ds)]))

(***************************************************************************)
(* The eight-group harness: one eight-group kernel call next to the eight  *)
(* single-group calls it stands for (test_decode8, test_decode_deltas8 and *)
(* test_skip_deltas8 of tests.rs), on a buffer of exactly the              *)
(* data_len8 + (TAG_LEN[3] - TAG_LEN[0]) * 4 bytes decode_to_sink          *)
(* guarantees to a batch call.                                             *)
(***************************************************************************)
\* The implementations of the eight-group kernels: the defaults of
\* raw_group.rs over the scalar kernel, and the NEON kernels that override
\* them.
Backends8(c) == IF c = "1248" THEN {"default"} ELSE {"default", "neon"}

\* The eight-group kernels backend b of coder c implements itself.
Ops8(c, b) ==
  CASE b = "default" -> {"decode8", "decode_deltas8", "skip_deltas8"}
    [] c = "1234"    -> {"decode8", "decode_deltas8", "skip_deltas8", "tag8_offsets"}
    [] OTHER         -> {"decode8", "decode_deltas8", "tag8_offsets"}

\* The tag words of the kernel calls: all zero, all ones, a repeated byte,
\* and words of eight different bytes.
Tag8Words ==
  {GenTags(8, seed, stride) : seed \in {0, 85, 255, 27}, stride \in {0, 37, 219}}
    \cup {<<0, 0, 1, 0, 0, 0, 0, 0>>, <<0, 0, 0, 0, 0, 0, 0, 3>>}

\* The input of a call: byte k is a + b * k modulo 256.
Mem8(n, a, b) == [k \in 1..n |-> (a + b * k) % 256]
Mem8Patterns == {<<1, 0>>, <<255, 0>>, <<3, 7>>}

\* The bases of the delta calls: zero, and groups whose last element is
\* within reach of the largest element.
Bases8(c) ==
  LET top(b) == [k \in 1..ELEM_WIDTH(c) |-> IF k = 1 THEN b ELSE 255]
  IN {set1(ElemZero(ELEM_WIDTH(c))), set1(top(255)),
      <<ElemZero(ELEM_WIDTH(c)), top(1), top(2), top(16)>>}

\* The output handed to a call: 32 elements the call has to overwrite.
Out8(c) == [k \in 1..32 |-> [j \in 1..ELEM_WIDTH(c) |-> 170]]

Kern8Init ==
  /\ coder \in Coders
  /\ enc_mode = "plain" /\ initial = ElemZero(ELEM_WIDTH(coder))
  /\ values = <<>> /\ tags = <<>> /\ data = <<>>
  /\ pc = "fn_call"
  /\ seek = 0
  /\ Idle
  /\ \/ \E b \in Backends8(coder), tag8 \in Tag8Words, mp \in Mem8Patterns :
        \E op \in Ops8(coder, b) \ {"tag8_offsets"} :
        \E base \in IF op = "decode_deltas8" THEN Bases8(coder)
                    ELSE {set1(ElemZero(ELEM_WIDTH(coder)))} :
          fn = [op  |-> op,
                arg |-> [backend |-> b, tag8 |-> tag8, base |-> base,
                         mem |-> Mem8(max_read(coder, tag8), mp[1], mp[2])],
                ret |-> <<>>]
     \/ \E seed \in 0..255, stride \in TagStrides :
          /\ coder # "1248"
          /\ fn = [op  |-> "tag8_offsets",
                   arg |-> [backend |-> "neon", tag8 |-> GenTags(8, seed, stride),
                            base |-> <<>>, mem |-> <<>>],
                   ret |-> <<>>]

\* Self::decode, Self::decode_deltas and Self::skip_deltas of the backend
\* whose eight-group kernel is called.
Kern1Decode(c, b, mem, off, tag, junk) ==
  IF b = "neon" THEN SimdDecode(c, "neon", mem, off, tag, junk)
  ELSE ScalarDecode(c, mem, off, tag, junk)
Kern1DecodeDeltas(c, b, mem, off, tag, base, junk) ==
  IF b = "neon" THEN SimdDecodeDeltas(c, "neon", mem, off, tag, base, junk)
  ELSE ScalarDecodeDeltas(c, mem, off, tag, base, junk)
Kern1SkipDeltas(c, b, mem, off, tag, junk) ==
  IF b = "neon" THEN SimdSkipDeltas(c, "neon", mem, off, tag, junk)
  ELSE ScalarSkipDeltas(c, mem, off, tag, junk)

\* n successive decode calls, each at the offset the earlier ones read up to.
RECURSIVE SeqDecode(_, _, _, _, _, _)
SeqDecode(c, b, mem, tag8, n, junk) ==
  IF n = 0 THEN [read |-> 0, out |-> <<>>, oob |-> FALSE]
  ELSE Let(SeqDecode(c, b, mem, tag8, n - 1, junk), LAMBDA s :
       Let(Kern1Decode(c, b, mem, s.read, tag8[n], junk), LAMBDA d :
         [read |-> s.read + d.read, out |-> s.out \o d.group, oob |-> s.oob \/ d.oob]))

\* n successive decode_deltas calls threading the base.
RECURSIVE SeqDecodeDeltas(_, _, _, _, _, _, _)
SeqDecodeDeltas(c, b, mem, tag8, base, n, junk) ==
  IF n = 0 THEN [read |-> 0, out |-> <<>>, group |-> base, oob |-> FALSE]
  ELSE Let(SeqDecodeDeltas(c, b, mem, tag8, base, n - 1, junk), LAMBDA s :
       Let(Kern1DecodeDeltas(c, b, mem, s.read, tag8[n], s.group, junk), LAMBDA d :
         [read |-> s.read + d.read, out |-> s.out \o d.group, group |-> d.group,
          oob |-> s.oob \/ d.oob]))

\* n successive skip_deltas calls, their sums added with wrapping_add.
RECURSIVE SeqSkipDeltas(_, _, _, _, _, _)
SeqSkipDeltas(c, b, mem, tag8, n, junk) ==
  IF n = 0 THEN [read |-> 0, sum |-> ElemZero(ELEM_WIDTH(c)), oob |-> FALSE]
  ELSE Let(SeqSkipDeltas(c, b, mem, tag8, n - 1, junk), LAMBDA s :
       Let(Kern1SkipDeltas(c, b, mem, s.read, tag8[n], junk), LAMBDA d :
         [read |-> s.read + d.read, sum |-> wrapping_add(s.sum, d.sum),
          oob |-> s.oob \/ d.oob]))

\* The result of a default eight-group kernel, which cannot panic.
NoPanic(r) == [panic |-> FALSE, read |-> r.read, vals |-> r.vals, group |-> r.group, oob |-> r.oob]

\* test_decode8: G::decode8(input, tag8, output) and eight G::decode calls.
Kern8Decode ==
  /\ pc = "fn_call" /\ fn.op = "decode8"
  /\ \E junk \in JunkBytes, a \in {fn.arg} :
       fn' = [fn EXCEPT !.ret =
                [batch |-> CASE a.backend = "default" ->
                                  NoPanic(default_decode8(coder, a.mem, 0, a.tag8, Out8(coder), 0, junk))
                             [] coder = "1234" ->
                                  neon1234_decode8(a.mem, 0, a.tag8, Out8(coder), 0, junk)
                             [] OTHER ->
                                  neon32_decode8(coder, a.mem, 0, a.tag8, Out8(coder), 0, junk),
                 seq   |-> SeqDecode(coder, a.backend, a.mem, a.tag8, 8, junk)]]
  /\ pc' = "fn_done"
  /\ UNCHANGED fnRest

\* test_decode_deltas8: G::decode_deltas8(input, tag8, base, output) and
\* eight G::decode_deltas calls, in a build with or without overflow checks.
Kern8DecodeDeltas ==
  /\ pc = "fn_call" /\ fn.op = "decode_deltas8"
  /\ \E junk \in JunkBytes, overflow_checks \in BOOLEAN, a \in {fn.arg} :
       fn' = [fn EXCEPT !.ret =
                [batch |-> CASE a.backend = "default" ->
                                  NoPanic(default_decode_deltas8(coder, a.mem, 0, a.tag8, a.base,
                                                                 Out8(coder), 0, junk))
                             [] coder = "1234" ->
                                  neon1234_decode_deltas8(a.mem, 0, a.tag8, GroupBytes(a.base),
                                                          Out8(coder), 0, junk, overflow_checks)
                             [] OTHER ->
                                  neon32_decode_deltas8(coder, a.mem, 0, a.tag8, GroupBytes(a.base),
                                                        Out8(coder), 0, junk),
                 seq   |-> SeqDecodeDeltas(coder, a.backend, a.mem, a.tag8, a.base, 8, junk)]]
  /\ pc' = "fn_done"
  /\ UNCHANGED fnRest

\* test_skip_deltas8: G::skip_deltas8(input, tag8) and eight G::skip_deltas
\* calls.
Kern8SkipDeltas ==
  /\ pc = "fn_call" /\ fn.op = "skip_deltas8"
  /\ \E junk \in JunkBytes, a \in {fn.arg} :
       fn' = [fn EXCEPT !.ret =
                [batch |-> IF a.backend = "default"
                           THEN default_skip_deltas8(coder, a.mem, 0, a.tag8, junk)
                           ELSE neon1234_skip_deltas8(a.mem, 0, a.tag8, junk),
                 seq   |-> SeqSkipDeltas(coder, a.backend, a.mem, a.tag8, 8, junk)]]
  /\ pc' = "fn_done"
  /\ UNCHANGED fnRest

\* tests::tag8_offsets: the offsets word and the total of the NEON kernel.
Kern8Offsets ==
  /\ pc = "fn_call" /\ fn.op = "tag8_offsets"
  /\ fn' = [fn EXCEPT !.ret = neon_tag8_offsets(coder, fn.arg.tag8)]
  /\ pc' = "fn_done"
  /\ UNCHANGED fnRest

Kern8Next ==
  \/ Kern8Decode
  \/ Kern8DecodeDeltas
  \/ Kern8SkipDeltas
  \/ Kern8Offsets

SpecKern8 == Kern8Init /\ [][Kern8Next]_vars

\* An eight-group kernel call has returned (or panicked).
Kern8Done(op) == pc = "fn_done" /\ fn.op = op

\* The tag word is the sequence of the tags of the eight calls, so the
\* kernels agree when: decode8 wrote the 32 elements of the eight decode
\* calls and returned their total read count; decode_deltas8 did the same
\* for the decode_deltas calls threading the base and returned the eighth
\* group; skip_deltas8 returned the total read count and the wrapping sum.
Batch8Agrees ==
  /\ fn.op \in {"decode8", "decode_deltas8"} =>
       /\ ~fn.ret.batch.panic
       /\ fn.ret.batch.read = fn.ret.seq.read
       /\ fn.ret.batch.vals = fn.ret.seq.out
       /\ ~fn.ret.batch.oob
  /\ fn.op = "decode_deltas8" => fn.ret.batch.group = fn.ret.seq.group
  /\ fn.op = "skip_deltas8" =>
       /\ fn.ret.batch.read = fn.ret.seq.read
       /\ fn.ret.batch.sum = fn.ret.seq.sum
       /\ ~fn.ret.batch.oob

\* The call took the all-one-byte path of group1234/neon.rs.
OneBytePath == coder = "1234" /\ fn.arg.backend = "neon" /\ fn.arg.tag8 = U64Splat(0)

\* Some eight-group kernel call has returned (or panicked).
Batch8Done == pc = "fn_done" /\ fn.op \in {"decode8", "decode_deltas8", "skip_deltas8"}

\* C23. Batch equals sequential: every eight-group kernel call - the
\* defaults of raw_group.rs and the NEON kernels that take the offsets from
\* tag8_offsets - returns, without failing, what the eight single-group
\* calls at accumulated offsets return.
C23_Original == Batch8Done => Batch8Agrees

\* All eight-group kernel calls but decode_deltas8 of group1234/neon.rs on
\* the tag word 0 agree with the eight single-group calls.
C23_AgreeOffOneBytePath ==
  (Batch8Done /\ ~(OneBytePath /\ fn.op = "decode_deltas8")) => Batch8Agrees

\* C27. All-one-byte fast path: decode_deltas8 of the NEON 1234 kernel with
\* tag8 == 0 does not fail, writes the 32 values of eight successive
\* decode_deltas calls from the same base and returns (32, their last
\* group), for every base, the bases whose running sums pass 2^32 - 1
\* included.
C27_Original ==
  (Kern8Done("decode_deltas8") /\ OneBytePath) =>
    /\ ~fn.ret.batch.panic
    /\ fn.ret.batch.read = 32
    /\ fn.ret.batch.vals = fn.ret.seq.out
    /\ fn.ret.batch.group = fn.ret.seq.group

\* base[3] plus the first 8, 16 or 24 one-byte deltas passes 2^32 - 1.
OneByteBaseOverflows ==
  LET b0 == fn.arg.base[4]
      s(n) == U32Of(SumSeq(SubSeq(fn.arg.mem, 1, n)))
  IN \E n \in {8, 16, 24} : ~ElemLeq(b0, wrapping_add(b0, s(n)))

\* The fast path fails only when one of its three `+` overflows, and then
\* only in a build with overflow checks; whenever it returns, it returns
\* what the eight decode_deltas calls return.
C27_PanicsOnlyOnOverflow ==
  (Kern8Done("decode_deltas8") /\ OneBytePath) =>
    /\ fn.ret.batch.panic => OneByteBaseOverflows
    /\ ~fn.ret.batch.panic =>
         /\ fn.ret.batch.read = 32
         /\ fn.ret.batch.vals = fn.ret.seq.out
         /\ fn.ret.batch.group = fn.ret.seq.group

\* The sum of the data lengths of bytes 0 .. i - 1 of the tag word.
LenBefore(c, tag8, i) == SumSeq([j \in 1..i |-> data_len1(c, tag8[j])])

\* C28. tag8_offsets of the 1234 and 0124 NEON kernels: byte i of the
\* offsets word is the sum of data_len of the tag bytes below i, the total is
\* data_len8(tag8), and every running sum is at most 128, so that no
\* addition of the u64 arithmetic carries out of its byte.
C28_Tag8Offsets ==
  Kern8Done("tag8_offsets") =>
    /\ \A i \in 0..7 :
         /\ Tag8Byte(fn.ret[1], i) = LenBefore(coder, fn.arg.tag8, i)
         /\ LenBefore(coder, fn.arg.tag8, i + 1) <= 128
    /\ fn.ret[2] = data_len8(coder, fn.arg.tag8)
    /\ fn.ret[2] = LenBefore(coder, fn.arg.tag8, 8)

\* The largest running sums: the tag word of eight 0xff bytes.
C28_Witness ==
  /\ Kern8Done("tag8_offsets") /\ fn.arg.tag8 = U64Splat(255)
  /\ fn.ret = <<<<0, 16, 32, 48, 64, 80, 96, 112>>, 128>>

(***************************************************************************)
(* encode and then encode_deltas of the same non-decreasing slice into the *)
(* same buffers, as in the crate's "Example with delta coding" (lib.rs).   *)
(***************************************************************************)
\* The representative elements in ascending order.
SortedElems(c) ==
  IF c = "1248" THEN Elems64
  ELSE <<Elems32[1], Elems32[2], Elems32[3], Elems32[7], Elems32[4], Elems32[5], Elems32[6]>>

\* n elements climbing the ascending list from position seed, num steps
\* every den elements, and staying on the largest once it is reached.
SortedValues(c, n, seed, num, den) ==
  [i \in 1..n |-> SortedElems(c)[Min(Len(SortedElems(c)), seed + (((i - 1) * num) \div den))]]

\* The distances of the example in lib.rs; its values are their running sums.
ExampleDistances ==
  <<0, 128, 256, 1024, 70, 36, 1000000, 378, 45, 888, 26, 262144, 88, 89, 90, 16777216>>
ExampleValues(c) ==
  Let([j \in 1..16 |-> [k \in 1..ELEM_WIDTH(c) |->
         IF k <= 4 THEN U32Of(ExampleDistances[j])[k] ELSE 0]], LAMBDA ds :
    [i \in 1..16 |-> SumTo(ElemZero(ELEM_WIDTH(c)), ds, i)])

CostInit ==
  /\ coder \in Coders
  /\ enc_mode = "plain"
  /\ \/ \E n \in {0, 4, 8}, seed \in 1..7, num \in {0, 1, 2}, den \in {1, 3} :
          values = SortedValues(coder, n, seed, num, den)
     \/ values = ExampleValues(coder)
  /\ initial \in {ElemZero(ELEM_WIDTH(coder))}
                   \cup (IF values = <<>> THEN {} ELSE {values[1]})
  /\ tags = FreshBuffer(max_compressed_bytes(coder, Len(values))[1])
  /\ data = FreshBuffer(max_compressed_bytes(coder, Len(values))[2])
  /\ pc = "encode"
  /\ fn = NoCall
  /\ seek = 0
  /\ Idle

\* let nodelta_data_len = coder.encode(&values, tags, data); then the call
\* coder.encode_deltas(initial, &values, tags, data) on the same buffers.
EncodeDeltasCall ==
  /\ pc = "data_len" /\ enc_mode = "plain"
  /\ fn' = [op |-> "encode", arg |-> <<>>, ret |-> <<enc_ret>>]
  /\ enc_mode' = "delta"
  /\ pc' = "encode"
  /\ UNCHANGED <<coder, initial, values, seek, tags, data, encVars, ret_len, decVars, res, oob>>

CostNext ==
  \/ EncodeEntry
  \/ EncodeGroup
  \/ EncodeReturn
  \/ EncodeDeltasCall

SpecCost == CostInit /\ [][CostNext]_vars

\* Elements at the edges of the encoded lengths: 2^(8k) - 1 and 2^(8k).
EdgeElems(c) ==
  {[j \in 1..ELEM_WIDTH(c) |-> IF j <= k THEN 255 ELSE 0] : k \in 0..ELEM_WIDTH(c)}
    \cup {[j \in 1..ELEM_WIDTH(c) |-> IF j = k THEN 1 ELSE 0] : k \in 1..ELEM_WIDTH(c)}

\* The input of the call is non-decreasing and starts at or above initial.
SortedInput ==
  /\ \A i \in 1..(Len(values) - 1) : ElemLeq(values[i], values[i + 1])
  /\ values # <<>> => ElemLeq(initial, values[1])

\* encode_deltas has returned, after encode returned fn.ret[1].
BothEncoded == pc = "data_len" /\ enc_mode = "delta" /\ fn.op = "encode"

\* C29. Delta coding never costs more on sorted input: the length tag_value
\* chooses is non-decreasing in the value, and on a non-decreasing slice
\* with initial <= vs[0] the count encode_deltas returns is at most the
\* count encode returns.
C29_DeltaNeverCostsMore ==
  /\ \A a, b \in EdgeElems(coder) \cup {values[i] : i \in 1..Len(values)} :
       ElemLeq(a, b) => tag_value(coder, a)[2] <= tag_value(coder, b)[2]
  /\ (BothEncoded /\ SortedInput) => enc_ret <= fn.ret[1]

\* The example of lib.rs: the delta encoding is strictly shorter.
C29_Witness ==
  /\ BothEncoded /\ SortedInput /\ values = ExampleValues(coder)
  /\ coder = "1234" /\ initial = ElemZero(4)
  /\ enc_ret < fn.ret[1] /\ enc_ret = 27

(***************************************************************************)
(* The test suite's TagIter (tests.rs) and the eight-group tests built on  *)
(* it.  fn.arg is the iterator (tag, dist, masks), fn.ret the items        *)
(* collected so far and, at the end, their chunks_exact(8).                *)
(***************************************************************************)
\* TagIter::new(TAG_LEN, masks), then .collect::<Vec<_>>() begins.
IterInit ==
  /\ coder \in Coders
  /\ enc_mode = "plain" /\ initial = ElemZero(ELEM_WIDTH(coder))
  /\ values = <<>> /\ tags = <<>> /\ data = <<>>
  /\ pc = "fn_call"
  /\ seek = 0
  /\ Idle
  /\ \E masks \in KernMasks(coder) :
       fn = [op  |-> "tag_iter",
             arg |-> [tag |-> 0, dist |-> TAG_LEN(coder), masks |-> masks],
             ret |-> [items |-> <<>>, chunks |-> <<>>]]

\* TagIter::next: None when self.tag == 255; otherwise the group of the
\* tag with its data_len, and self.tag += 1.
TagIterNext ==
  /\ pc = "fn_call" /\ fn.op = "tag_iter"
  /\ IF fn.arg.tag = 255
     THEN /\ pc' = "fn_done"
          /\ fn' = fn
     ELSE /\ \E tag \in {fn.arg.tag} :
            \E vlens \in {[i \in 1..4 |-> fn.arg.dist[BitAnd(Shr(tag, 2 * (i - 1)), 3) + 1]]} :
              fn' = [fn EXCEPT
                       !.arg.tag = (tag + 1) % 256,
                       !.ret.items = Append(@,
                          [group    |-> [i \in 1..4 |->
                                           ElemAnd(byteval(coder, vlens[i]), fn.arg.masks[i])],
                           tag      |-> tag,
                           data_len |-> SumSeq(vlens)])]
          /\ pc' = pc
  /\ UNCHANGED fnRest

\* groups.chunks_exact(8) of the collected items, as the eight-group tests
\* iterate over it: the tags of each chunk.
TagIterChunks ==
  /\ pc = "fn_done" /\ fn.op = "tag_iter" /\ fn.ret.chunks = <<>>
  /\ fn' = [fn EXCEPT !.ret.chunks =
              [k \in 1..(Len(fn.ret.items) \div 8) |->
                 [j \in 1..8 |-> fn.ret.items[8 * (k - 1) + j].tag]]]
  /\ pc' = "done"
  /\ UNCHANGED fnRest

IterNext ==
  \/ TagIterNext
  \/ TagIterChunks

SpecIter == IterInit /\ [][IterNext]_vars

\* Item i (from 0) is the test group of tag i, with the sum of the four
\* selected lengths as data_len.
ItemsInOrder ==
  \A i \in 1..Len(fn.ret.items) :
    /\ fn.ret.items[i].tag = i - 1
    /\ fn.ret.items[i].data_len = data_len1(coder, i - 1)
    /\ fn.ret.items[i].group = TagIterGroup(coder, i - 1, fn.arg.masks)

\* C30. Test coverage iterator: TagIter yields exactly 256 items, with the
\* tags 0, 1, ..., 255 in ascending order and data_len the sum of the four
\* selected lengths, and only then returns None; the eight-group tests then
\* get all 32 blocks of eight consecutive tags from chunks_exact(8).
C30_Original ==
  /\ fn.op = "tag_iter" /\ pc = "fn_done" =>
       (Len(fn.ret.items) = 256 /\ ItemsInOrder)
  /\ fn.op = "tag_iter" /\ pc = "done" =>
       /\ Len(fn.ret.chunks) = 32
       /\ \A k \in 1..Len(fn.ret.chunks) :
            fn.ret.chunks[k] = [j \in 1..8 |-> 8 * (k - 1) + j - 1]

\* What the iterator does: 255 items, the tags 0 .. 254, and 31 chunks, the
\* tags 0 .. 247; no item has tag 255 and no chunk holds the tags 248 .. 255.
C30_StopsBeforeLastTag ==
  /\ fn.op = "tag_iter" => ItemsInOrder
  /\ fn.op = "tag_iter" /\ pc \in {"fn_done", "done"} => Len(fn.ret.items) = 255
  /\ fn.op = "tag_iter" /\ pc = "done" =>
       /\ Len(fn.ret.chunks) = 31
       /\ \A k \in 1..31 : fn.ret.chunks[k] = [j \in 1..8 |-> 8 * (k - 1) + j - 1]

====
